---- MODULE Spec2Model ----
(***************************************************************************)
(* Model of the blockchain synchronisation and state-transition engine of  *)
(* the masumi payment service: the sync loop (checkLatestTransactions),    *)
(* its per-source advisory lock, the transaction handlers of               *)
(* cardano-tx-handler/tx, the history check, the redeemer table and the    *)
(* register dispatcher.  Each group of variables belongs to one            *)
(* specification; a specification leaves the other groups at their idle    *)
(* values.                                                                  *)
(***************************************************************************)
EXTENDS FiniteSets, Integers, Naturals, Sequences, TLC

VARIABLES
  \* ---- redeemerToOnChainState as a pure function (SpecRedeemer)
  rdIn,            \* [redeemerVersion, decodedNewContract, valueMatches]
  rdOut,           \* "unset" before the call, then the returned state or "null"
  \* ---- per-source advisory sync lock (SpecLock)
  syncInProgress,  \* PaymentSource.syncInProgress
  updatedAt,       \* PaymentSource.updatedAt (minutes)
  syncDisabled,    \* sources with disableSyncAt / deletedAt set
  now,             \* wall clock (minutes)
  holding,         \* coordinator -> the paymentContracts its running cycle locked
  \* ---- relational store shared by the handlers
  db,              \* [tx, pay, pur, lockedAt]: Transaction rows, the two mirrors, HotWallet.lockedAt
  \* ---- updateTransaction on a graph of script transactions (SpecMirror)
  mirrorLog,       \* [last, top, count, before]: the transaction handled last, the
                   \* highest of the line handled, how many were handled, db before the last
  \* ---- updateInitialTransactions on one script output (SpecInitial)
  iniLog,          \* [input, handled, before]: the output, whether it was
                   \* handled, db before it was
  \* ---- one sync cycle after the other on one payment source (SpecSync)
  chain,                     \* the script address's transactions, oldest first: [hash, time]
  lastIdentifierChecked,     \* PaymentSource.lastIdentifierChecked (NoTx: null)
  paymentSourceIdentifiers,  \* the table's txHash column in createdAt order
  cycle,                     \* the locals of the running checkLatestTransactions
  syncLog,                   \* what the cycles did so far
  \* ---- the register dispatcher of several coordinators (SpecWallet)
  amt,             \* [expectedAmounts, actualAmounts, collateralReturn, result]:
                   \* one call of checkPaymentAmountsMatch (SpecAmounts)
  del,            \* [rows, call, calls, statuses]: the RegistryRequest table and the running calls of deleteAgentRegistration (SpecDelete)
  obs,            \* [last, count, before, failed]: the transaction updateTransaction was called for last, how many calls there were, db before the last, which handler's write threw in it (SpecRefund)
  ext,            \* [tx, result]: one call of extractOnChainTransactionData (SpecExtract)
  mx,             \* [locked, pc, accesses, cycles, failed]: the process-wide mutexes of the two jobs (SpecMutex)
  sel,            \* [utxos, result]: one call of sortAndLimitUtxos (SpecSelect)
  wd,             \* [tx, redeemerVersion, ..., forSeller, forBuyer]: the withdrawn amounts one updateTransaction writes (SpecWithdrawn)
  sc,             \* [pc, mutex, syncInProgress, ids, cycles, last]: one process running sync cycles (SpecCycle)
  st,             \* [pc, hash, payAction, purAction, tableInput, actionInTx]: one updateTransaction beside the API (SpecStale)
  mon,            \* [isMonitoring, monitoringInterval, timers, awaiting, starts, ticks, stopped]: BlockchainStateMonitorService (SpecMonitor)
  hw,             \* [pc, txHash, lastTxHash, maxLevels, remainingLevels, w, visited, result]: one call of getSmartContractInteractionTxHistoryList (SpecHistory)
  reg              \* [state, cur, op, tries, batch]: the RegistryRequest rows, each
                   \* request's position in the operation registerAgentV1 runs for
                   \* it, and the requests each coordinator's running call holds

rdVars      == <<rdIn, rdOut>>
lockVars    == <<syncInProgress, updatedAt, syncDisabled, now, holding>>
mirrorVars  == <<mirrorLog>>
initialVars == <<iniLog>>
syncVars    == <<chain, lastIdentifierChecked, paymentSourceIdentifiers, cycle,
                 syncLog>>
walletVars  == <<reg>>
amountVars  == <<amt>>
historyVars == <<hw>>
monitorVars == <<mon>>
staleVars == <<st>>
cycleVars == <<sc>>
withdrawVars == <<wd>>
selectVars == <<sel>>
mutexVars == <<mx>>
extractVars == <<ext>>
refundVars == <<obs>>
deleteVars == <<del>>
vars        == <<rdIn, rdOut, syncInProgress, updatedAt, syncDisabled, now, holding,
                 db, mirrorLog, iniLog, chain, lastIdentifierChecked,
                 paymentSourceIdentifiers, cycle, syncLog, reg, amt, del, obs, ext, mx, sel, wd, sc, st, mon, hw>>

\* what the actions of one specification leave alone
notRd      == <<lockVars, db, mirrorVars, initialVars, syncVars, walletVars, amountVars, deleteVars, refundVars, extractVars, mutexVars, selectVars, withdrawVars, cycleVars, staleVars, monitorVars, historyVars>>
notLock    == <<rdVars, db, mirrorVars, initialVars, syncVars, walletVars, amountVars, deleteVars, refundVars, extractVars, mutexVars, selectVars, withdrawVars, cycleVars, staleVars, monitorVars, historyVars>>
notMirror  == <<rdVars, lockVars, initialVars, syncVars, walletVars, amountVars, deleteVars, refundVars, extractVars, mutexVars, selectVars, withdrawVars, cycleVars, staleVars, monitorVars, historyVars>>
notInitial == <<rdVars, lockVars, mirrorVars, syncVars, walletVars, amountVars, deleteVars, refundVars, extractVars, mutexVars, selectVars, withdrawVars, cycleVars, staleVars, monitorVars, historyVars>>
notSync    == <<rdVars, lockVars, mirrorVars, initialVars, walletVars, amountVars, deleteVars, refundVars, extractVars, mutexVars, selectVars, withdrawVars, cycleVars, staleVars, monitorVars, historyVars>>
notWallet  == <<rdVars, lockVars, mirrorVars, initialVars, syncVars, amountVars, deleteVars, refundVars, extractVars, mutexVars, selectVars, withdrawVars, cycleVars, staleVars, monitorVars, historyVars>>
notAmounts == <<rdVars, lockVars, db, mirrorVars, initialVars, syncVars, walletVars, deleteVars, refundVars, extractVars, mutexVars, selectVars, withdrawVars, cycleVars, staleVars, monitorVars, historyVars>>
notDelete == <<rdVars, lockVars, db, mirrorVars, initialVars, syncVars, walletVars, amountVars, refundVars, extractVars, mutexVars, selectVars, withdrawVars, cycleVars, staleVars, monitorVars, historyVars>>
notRefund == <<rdVars, lockVars, mirrorVars, initialVars, syncVars, walletVars, amountVars, deleteVars, extractVars, mutexVars, selectVars, withdrawVars, cycleVars, staleVars, monitorVars, historyVars>>
notExtract == <<rdVars, lockVars, db, mirrorVars, initialVars, syncVars, walletVars, amountVars, refundVars, deleteVars, mutexVars, selectVars, withdrawVars, cycleVars, staleVars, monitorVars, historyVars>>
notMutex == <<rdVars, lockVars, db, mirrorVars, initialVars, syncVars, walletVars, amountVars, extractVars, refundVars, deleteVars, selectVars, withdrawVars, cycleVars, staleVars, monitorVars, historyVars>>
notSelect == <<rdVars, lockVars, db, mirrorVars, initialVars, syncVars, walletVars, amountVars, mutexVars, extractVars, refundVars, deleteVars, withdrawVars, cycleVars, staleVars, monitorVars, historyVars>>
notWithdraw == <<rdVars, lockVars, db, mirrorVars, initialVars, syncVars, walletVars, amountVars, selectVars, mutexVars, extractVars, refundVars, deleteVars, cycleVars, staleVars, monitorVars, historyVars>>
notCycle == <<rdVars, lockVars, db, mirrorVars, initialVars, syncVars, walletVars, amountVars, withdrawVars, selectVars, mutexVars, extractVars, refundVars, deleteVars, staleVars, monitorVars, historyVars>>
notStale == <<rdVars, lockVars, mirrorVars, initialVars, syncVars, walletVars, amountVars, cycleVars, withdrawVars, selectVars, mutexVars, extractVars, refundVars, deleteVars, monitorVars, historyVars>>
notMonitor == <<rdVars, lockVars, db, mirrorVars, initialVars, syncVars, walletVars, amountVars, staleVars, cycleVars, withdrawVars, selectVars, mutexVars, extractVars, refundVars, deleteVars, historyVars>>
notHistory == <<rdVars, lockVars, db, mirrorVars, initialVars, syncVars, walletVars, amountVars, monitorVars, staleVars, cycleVars, withdrawVars, selectVars, mutexVars, extractVars, refundVars, deleteVars>>

NULL == "null"

(***************************************************************************)
(* Enumerations (prisma client / contract generator)                        *)
(***************************************************************************)
SmartContractState == {"FundsLocked", "ResultSubmitted", "RefundRequested", "Disputed"}

OnChainState == {"FundsLocked", "ResultSubmitted", "RefundRequested", "Disputed",
                 "Withdrawn", "RefundWithdrawn", "DisputedWithdrawn",
                 "FundsOrDatumInvalid"}

(***************************************************************************)
(* redeemerToOnChainState (util.ts).  An optional value is a sequence of    *)
(* length 0 (null) or 1; decodedNewContract is None or Some of a record     *)
(* [resultHash, state]; resultHash "" is the unset hash.                    *)
(* `decodedNewContract?.resultHash` is undefined for a null contract, and   *)
(* undefined != '' is true in JavaScript.                                   *)
(***************************************************************************)
None == <<>>
Some(x) == <<x>>

OptResultHash(decodedNewContract) ==
  IF decodedNewContract = None THEN "undefined" ELSE decodedNewContract[1].resultHash

OptStateDropped(decodedNewContract) == "undefined"

OptState(decodedNewContract) ==
  IF decodedNewContract = None THEN "undefined" ELSE decodedNewContract[1].state

\* JavaScript truthiness of an optional string
Truthy(s) == s # "undefined" /\ s # ""

redeemerToOnChainState(redeemerVersion, decodedNewContract, valueMatches) ==
  IF redeemerVersion = 0 THEN "Withdrawn"
  ELSE IF redeemerVersion = 1 THEN
    IF Truthy(OptResultHash(decodedNewContract))
       /\ OptResultHash(decodedNewContract) # ""
    THEN "Disputed" ELSE "RefundRequested"
  ELSE IF redeemerVersion = 2 THEN
    IF OptResultHash(decodedNewContract) # ""
    THEN "ResultSubmitted"
    ELSE IF valueMatches = TRUE THEN "FundsLocked" ELSE "FundsOrDatumInvalid"
  ELSE IF redeemerVersion = 3 THEN "RefundWithdrawn"
  ELSE IF redeemerVersion = 4 THEN "DisputedWithdrawn"
  ELSE IF redeemerVersion = 5 THEN
    IF OptState(decodedNewContract) = "RefundRequested"
       \/ OptState(decodedNewContract) = "Disputed"
    THEN "Disputed" ELSE "ResultSubmitted"
  ELSE IF redeemerVersion = 6 THEN "RefundRequested"
  ELSE NULL

\* ---- SpecRedeemer: the inputs of the function and one call ----
MaxRedeemer == 7
ResultHashes == {"", "ff00"}
NewContracts ==
  {None} \cup {Some(d) : d \in [resultHash : ResultHashes, state : SmartContractState]}

RdIdle == rdIn = None /\ rdOut = "unset"

RdInit ==
  /\ rdIn \in [redeemerVersion : 0..MaxRedeemer,
               decodedNewContract : NewContracts,
               valueMatches : BOOLEAN]
  /\ rdOut = "unset"

CallRedeemerToOnChainState ==
  /\ rdOut = "unset"
  /\ rdOut' = redeemerToOnChainState(rdIn.redeemerVersion,
                                     rdIn.decodedNewContract, rdIn.valueMatches)
  /\ UNCHANGED <<rdIn, notRd>>

(***************************************************************************)
(* Per-source sync lock (cardano-tx-handler.service.ts).  Time is counted  *)
(* in minutes; updatedAt is refreshed by every write to the row.            *)
(***************************************************************************)
Coordinators == {"c1", "c2"}
Sources == {"s1", "s2"}
SYNC_LOCK_TIMEOUT_INTERVAL == 3
MaxTime == 4

LockIdle ==
  /\ syncInProgress = [s \in Sources |-> FALSE]
  /\ updatedAt = [s \in Sources |-> 0]
  /\ syncDisabled = {}
  /\ now = 0
  /\ holding = [c \in Coordinators |-> {}]

LockInit ==
  /\ syncInProgress = [s \in Sources |-> FALSE]
  /\ updatedAt = [s \in Sources |-> 0]
  /\ syncDisabled \in SUBSET Sources
  /\ syncDisabled # Sources
  /\ now = 0
  /\ holding = [c \in Coordinators |-> {}]

\* the findMany of queryAndLockPaymentSourcesForSync
SelectableForSync(s) ==
  /\ s \notin syncDisabled
  /\ \/ syncInProgress[s] = FALSE
     \/ /\ syncInProgress[s] = TRUE
        /\ updatedAt[s] <= now - SYNC_LOCK_TIMEOUT_INTERVAL

\* One serializable transaction: select, give up when nothing is selectable,
\* otherwise flag every selected source.  The process mutex allows one cycle
\* per coordinator.
queryAndLockPaymentSourcesForSync(c) ==
  /\ holding[c] = {}
  /\ LET paymentContracts == {s \in Sources : SelectableForSync(s)} IN
       /\ paymentContracts # {}
       /\ syncInProgress' = [s \in Sources |->
                               IF s \in paymentContracts THEN TRUE
                               ELSE syncInProgress[s]]
       /\ updatedAt' = [s \in Sources |->
                          IF s \in paymentContracts THEN now ELSE updatedAt[s]]
       /\ holding' = [holding EXCEPT ![c] = paymentContracts]
  /\ UNCHANGED <<syncDisabled, now, notLock>>

\* The cursor write of the cycle (paymentSource.update) touches the row.
SyncWritesCursor(c, s) ==
  /\ s \in holding[c]
  /\ updatedAt[s] # now
  /\ updatedAt' = [updatedAt EXCEPT ![s] = now]
  /\ UNCHANGED <<syncInProgress, syncDisabled, now, holding, notLock>>

\* finally-block of the cycle: clears the flag of the ids this cycle locked
unlockPaymentSources(c) ==
  /\ holding[c] # {}
  /\ syncInProgress' = [s \in Sources |->
                          IF s \in holding[c] THEN FALSE ELSE syncInProgress[s]]
  /\ updatedAt' = [s \in Sources |->
                     IF s \in holding[c] THEN now ELSE updatedAt[s]]
  /\ holding' = [holding EXCEPT ![c] = {}]
  /\ UNCHANGED <<syncDisabled, now, notLock>>

Tick ==
  /\ now < MaxTime
  /\ now' = now + 1
  /\ UNCHANGED <<syncInProgress, updatedAt, syncDisabled, holding, notLock>>

(***************************************************************************)
(* Script transactions as the indexer reports them.  A hash is a positive   *)
(* number; NoTx stands for a null hash and for the 'no-tx' placeholder.     *)
(*   1         the Initial transaction that opened the escrow "b1"          *)
(*   2..Deep   a line of state transitions, h spends the output of h-1      *)
(*   30        another spend of the output of 1 (seen after a rollback)     *)
(*   40,41,42  a foreign escrow that copies the datum of "b1", and spends   *)
(*   50        a transaction of invalid shape                               *)
(*   60        a state transition of an escrow "b2" unknown to the database *)
(*   70,71     a spend of 1 with two script outputs, and a spend of it      *)
(*   80        a spend of 1 whose redeemer has the constructor index 7      *)
(*   91,92     after the refund request 2: the result is submitted (new     *)
(*             datum in state Disputed), then the refund request cancelled  *)
(*   93,94     the same with the new datum of 93 in state RefundRequested   *)
(*   100,101   a transaction with the script inputs 1 and 40, and a spend   *)
(*             of it                                                        *)
(***************************************************************************)
NoTx == 0
MAX_DEFAULT_SMART_CONTRACT_HISTORY_LEVELS == 20
Deep == 23

ChainTx(h) ==
  IF h = 1 \/ h = 40 THEN
    [kind |-> "Initial", inputs |-> <<>>, outCount |-> 1, bid |-> "b1",
     datumOk |-> (h = 1), redeemerVersion |-> -1, newContract |-> None,
     valueMatches |-> TRUE]
  ELSE IF h \in 2..Deep THEN
    [kind |-> "Transaction", inputs |-> <<h - 1>>, outCount |-> 1, bid |-> "b1",
     datumOk |-> TRUE, redeemerVersion |-> IF h % 2 = 0 THEN 1 ELSE 2,
     newContract |-> Some([resultHash |-> "",
                           state |-> IF h % 2 = 0 THEN "RefundRequested"
                                     ELSE "FundsLocked"]),
     valueMatches |-> TRUE]
  ELSE IF h = 30 THEN
    [kind |-> "Transaction", inputs |-> <<1>>, outCount |-> 1, bid |-> "b1",
     datumOk |-> TRUE, redeemerVersion |-> 5,
     newContract |-> Some([resultHash |-> "ff00", state |-> "ResultSubmitted"]),
     valueMatches |-> TRUE]
  ELSE IF h \in {41, 42} THEN
    [kind |-> "Transaction", inputs |-> <<h - 1>>, outCount |-> 1, bid |-> "b1",
     datumOk |-> TRUE, redeemerVersion |-> IF h = 41 THEN 5 ELSE 0,
     newContract |-> IF h = 41
                     THEN Some([resultHash |-> "ff00", state |-> "ResultSubmitted"])
                     ELSE None,
     valueMatches |-> TRUE]
  ELSE IF h = 60 THEN
    [kind |-> "Transaction", inputs |-> <<59>>, outCount |-> 1, bid |-> "b2",
     datumOk |-> TRUE, redeemerVersion |-> 1,
     newContract |-> Some([resultHash |-> "", state |-> "RefundRequested"]),
     valueMatches |-> TRUE]
  ELSE IF h = 70 THEN
    [kind |-> "Invalid", inputs |-> <<1>>, outCount |-> 2, bid |-> "b1",
     datumOk |-> TRUE, redeemerVersion |-> 1, newContract |-> None,
     valueMatches |-> TRUE]
  ELSE IF h = 71 THEN
    [kind |-> "Transaction", inputs |-> <<70>>, outCount |-> 1, bid |-> "b1",
     datumOk |-> TRUE, redeemerVersion |-> 6,
     newContract |-> Some([resultHash |-> "", state |-> "RefundRequested"]),
     valueMatches |-> TRUE]
  ELSE IF h \in {91, 93} THEN
    [kind |-> "Transaction", inputs |-> <<2>>, outCount |-> 1, bid |-> "b1",
     datumOk |-> TRUE, redeemerVersion |-> 5,
     newContract |-> Some([resultHash |-> "ff00",
                           state |-> IF h = 91 THEN "Disputed"
                                     ELSE "RefundRequested"]),
     valueMatches |-> TRUE]
  ELSE IF h \in {92, 94} THEN
    [kind |-> "Transaction", inputs |-> <<h - 1>>, outCount |-> 1, bid |-> "b1",
     datumOk |-> TRUE, redeemerVersion |-> 2,
     newContract |-> Some([resultHash |-> "ff00", state |-> "ResultSubmitted"]),
     valueMatches |-> TRUE]
  ELSE IF h \in {100, 101} THEN
    [kind |-> IF h = 100 THEN "Invalid" ELSE "Transaction",
     inputs |-> IF h = 100 THEN <<1, 40>> ELSE <<100>>, outCount |-> 1,
     bid |-> "b1", datumOk |-> TRUE, redeemerVersion |-> 1,
     newContract |-> Some([resultHash |-> "", state |-> "RefundRequested"]),
     valueMatches |-> TRUE]
  ELSE IF h = 80 THEN
    [kind |-> "Transaction", inputs |-> <<1>>, outCount |-> 1, bid |-> "b1",
     datumOk |-> TRUE, redeemerVersion |-> 7,
     newContract |-> Some([resultHash |-> "", state |-> "FundsLocked"]),
     valueMatches |-> TRUE]
  ELSE
    [kind |-> IF h = 50 THEN "Invalid" ELSE "Initial", inputs |-> <<>>,
     outCount |-> 1, bid |-> "b2", datumOk |-> FALSE, redeemerVersion |-> -1,
     newContract |-> None, valueMatches |-> TRUE]

SeqToSet(q) == {q[i] : i \in 1..Len(q)}

\* [...new Set(txHashes)]: first occurrences, in order
Dedupe(q) ==
  LET first == {i \in 1..Len(q) : \A j \in 1..(i - 1) : q[j] # q[i]}
      at == [k \in 1..Cardinality(first) |->
               CHOOSE i \in first : Cardinality({j \in first : j < i}) = k - 1]
  IN [k \in 1..Cardinality(first) |-> q[at[k]]]

(***************************************************************************)
(* getSmartContractInteractionTxHistoryList (blockchain.ts).  w is the      *)
(* state of the loop: the hash to look up next, the hashes collected, and   *)
(* whether the loop has returned and what.  HistoryWalkStep is one          *)
(* iteration, HistoryWalkTimes runs n of them (the first half, then the     *)
(* rest), HistoryWalk is the loop and the return that follows it.           *)
(***************************************************************************)
\* an iteration without the return of lines 246-248
HistoryWalkStepPastFork(w, lastTxHash) ==
  IF w.returned THEN w
  ELSE
    LET tx == ChainTx(w.hashToCheck)
        inputUtxos == tx.inputs
        pushed == w.txHashes \o inputUtxos
    IN IF Len(inputUtxos) # 1
       THEN [w EXCEPT !.returned = TRUE,
                      !.result = Dedupe(IF lastTxHash \in SeqToSet(inputUtxos)
                                        THEN Append(w.txHashes, lastTxHash)
                                        ELSE w.txHashes)]
       ELSE IF lastTxHash \in SeqToSet(pushed)
       THEN [w EXCEPT !.returned = TRUE, !.result = Dedupe(pushed)]
       ELSE [w EXCEPT !.hashToCheck = inputUtxos[1], !.txHashes = pushed]

HistoryWalkStep(w, lastTxHash) ==
  IF w.returned THEN w
  ELSE
    LET tx == ChainTx(w.hashToCheck)
        inputUtxos == tx.inputs
        pushed == w.txHashes \o inputUtxos
    IN IF Len(inputUtxos) # 1
       THEN [w EXCEPT !.returned = TRUE,
                      !.result = Dedupe(IF lastTxHash \in SeqToSet(inputUtxos)
                                        THEN Append(w.txHashes, lastTxHash)
                                        ELSE w.txHashes)]
       ELSE IF lastTxHash \in SeqToSet(pushed)
       THEN [w EXCEPT !.returned = TRUE, !.result = Dedupe(pushed)]
       ELSE IF tx.outCount > 1
       THEN [w EXCEPT !.returned = TRUE, !.result = <<>>]
       ELSE [w EXCEPT !.hashToCheck = inputUtxos[1], !.txHashes = pushed]

RECURSIVE HistoryWalkTimes(_, _, _)
HistoryWalkTimes(w, lastTxHash, n) ==
  IF n <= 0 THEN w
  ELSE IF n = 1 THEN HistoryWalkStep(w, lastTxHash)
  ELSE CHOOSE after \in
         {HistoryWalkTimes(half, lastTxHash, n - (n \div 2)) :
            half \in {HistoryWalkTimes(w, lastTxHash, n \div 2)}} : TRUE

HistoryWalk(hashToCheck, lastTxHash, remainingLevels, txHashes) ==
  LET w == HistoryWalkTimes([hashToCheck |-> hashToCheck, txHashes |-> txHashes,
                             returned |-> FALSE, result |-> <<>>],
                            lastTxHash, remainingLevels)
  IN IF w.returned THEN w.result ELSE Dedupe(w.txHashes)

\* a walk that does not count its levels down
getSmartContractInteractionTxHistoryListUncounted(txHash, lastTxHash, maxLevels) ==
  Dedupe(HistoryWalk(txHash, lastTxHash, maxLevels + Deep, <<>>))

getSmartContractInteractionTxHistoryList(txHash, lastTxHash, maxLevels) ==
  HistoryWalk(txHash, lastTxHash, maxLevels, <<>>)

\* checkIfTxIsInHistory (util.ts)
checkIfTxIsInHistory(currentTxHash, transactionHistory, txHash) ==
  IF currentTxHash = txHash THEN TRUE
  ELSE LET txHistory == getSmartContractInteractionTxHistoryList(
                          txHash, currentTxHash,
                          MAX_DEFAULT_SMART_CONTRACT_HISTORY_LEVELS)
       IN \E i \in 1..Len(txHistory) :
            \/ currentTxHash = txHistory[i]
            \/ txHistory[i] \in transactionHistory

(***************************************************************************)
(* The relational store.  db.tx is the Transaction table (a row is          *)
(* addressed by its index), db.pay and db.pur are the PaymentRequest and    *)
(* the PurchaseRequest of the escrow "b1", db.lockedAt is HotWallet.lockedAt*)
(* (TRUE: not null).  cur = 0 stands for no current transaction; an         *)
(* error note is a sequence of note parts, <<>> for null.                   *)
(***************************************************************************)
Wallets == {"wSell", "wBuy"}
NoWallet == "none"
RollbackNote == "Rolled back transaction detected"

TxRow(txHash, status, blocksWallet) ==
  [txHash |-> txHash, status |-> status, blocksWallet |-> blocksWallet]

\* the table (current_action, new_on_chain_state) -> new action of
\* utils/logic/state-transitions
convertNewPaymentActionAndError(currentAction, newState) ==
  IF newState = "FundsOrDatumInvalid"
  THEN [action |-> "WaitingForManualAction", errorNote |-> <<"FundsOrDatumInvalid">>]
  ELSE IF newState \in {"Withdrawn", "RefundWithdrawn", "DisputedWithdrawn"}
  THEN [action |-> "None", errorNote |-> <<>>]
  ELSE [action |-> "WaitingForExternalAction", errorNote |-> <<>>]

convertNewPurchasingActionAndError(currentAction, newState) ==
  convertNewPaymentActionAndError(currentAction, newState)

\* errorNote of the NextAction the handlers create
ChainedNote(previousNote, previousAction, newNote) ==
  IF previousNote # <<>> THEN previousNote \o <<previousAction>> \o newNote
  ELSE newNote

CurHash(d, req) == IF req.cur = 0 THEN NoTx ELSE d.tx[req.cur].txHash
HistHashes(d, req) == {d.tx[i].txHash : i \in req.hist}

\* the write without TransactionHistory: { connect }
HandleTransactionOnWithoutHistory(d, side, tx_hash, newState, resultHash, newAction, cooldown) ==
  LET req == d[side]
      old == req.cur
      unlock == old # 0 /\ d.tx[old].blocksWallet # NoWallet
      rows == Append(d.tx, TxRow(tx_hash, "Confirmed", NoWallet))
      newReq == [req EXCEPT
                   !.action = newAction.action,
                   !.errorNote = ChainedNote(req.errorNote, req.action,
                                             newAction.errorNote),
                   !.cur = Len(rows),
                   !.cooldown = cooldown,
                   !.onChainState = newState,
                   !.resultHash = resultHash]
  IN [d EXCEPT
        ![side] = newReq,
        !.tx = IF unlock THEN [rows EXCEPT ![old].blocksWallet = NoWallet] ELSE rows,
        !.lockedAt = IF unlock
                     THEN [@ EXCEPT ![d.tx[old].blocksWallet] = FALSE] ELSE @]

\* the write both handlers perform on their request `side` ("pay" or "pur")
HandleTransactionOn(d, side, tx_hash, newState, resultHash, newAction, cooldown) ==
  LET req == d[side]
      old == req.cur
      unlock == old # 0 /\ d.tx[old].blocksWallet # NoWallet
      rows == Append(d.tx, TxRow(tx_hash, "Confirmed", NoWallet))
      newReq == [req EXCEPT
                   !.action = newAction.action,
                   !.errorNote = ChainedNote(req.errorNote, req.action,
                                             newAction.errorNote),
                   !.hist = IF old # 0 THEN @ \cup {old} ELSE @,
                   !.cur = Len(rows),
                   !.cooldown = cooldown,
                   !.onChainState = newState,
                   !.resultHash = resultHash]
  IN [d EXCEPT
        ![side] = newReq,
        !.tx = IF unlock THEN [rows EXCEPT ![old].blocksWallet = NoWallet] ELSE rows,
        !.lockedAt = IF unlock
                     THEN [@ EXCEPT ![d.tx[old].blocksWallet] = FALSE] ELSE @]

handlePaymentTransactionCardanoV1(d, tx_hash, newState, blockchainIdentifier, resultHash, currentAction, cooldown) ==
  IF ~(d.pay.exists /\ d.pay.bid = blockchainIdentifier) THEN d
  ELSE HandleTransactionOn(d, "pay", tx_hash, newState, resultHash,
         convertNewPaymentActionAndError(currentAction, newState), cooldown)

handlePurchasingTransactionCardanoV1(d, tx_hash, newStatus, blockchainIdentifier, resultHash, currentAction, cooldown) ==
  IF ~(d.pur.exists /\ d.pur.bid = blockchainIdentifier) THEN d
  ELSE HandleTransactionOn(d, "pur", tx_hash, newStatus, resultHash,
         convertNewPurchasingActionAndError(currentAction, newStatus), cooldown)

(***************************************************************************)
(* updateTransaction (tx/index.ts).  payFails / purFails: the serializable  *)
(* transaction of the payment / purchasing handler throws; each handler is  *)
(* called in a try block of its own and the error is logged.                *)
(***************************************************************************)
FoundByOldDatum(req, tx) == req.exists /\ req.bid = tx.bid /\ tx.datumOk

updateTransaction(d, txHash, payFails, purFails) ==
  LET tx == ChainTx(txHash)
      paymentRequest == FoundByOldDatum(d.pay, tx) /\ d.pay.buyerWallet # None
      purchasingRequest == FoundByOldDatum(d.pur, tx)
  IN
  IF ~paymentRequest /\ ~purchasingRequest THEN d
  ELSE
    LET inputTxHashMatchPaymentRequest ==
          checkIfTxIsInHistory(
            IF paymentRequest THEN CurHash(d, d.pay) ELSE NoTx,
            IF paymentRequest THEN HistHashes(d, d.pay) ELSE {}, txHash)
        inputTxHashMatchPurchasingRequest ==
          checkIfTxIsInHistory(
            IF purchasingRequest THEN CurHash(d, d.pur) ELSE NoTx,
            IF purchasingRequest THEN HistHashes(d, d.pur) ELSE {}, txHash)
        newState == redeemerToOnChainState(tx.redeemerVersion, tx.newContract,
                                           tx.valueMatches)
        resultHash == IF tx.newContract # None THEN tx.newContract[1].resultHash
                      ELSE ""
        payAction == IF paymentRequest THEN d.pay.action ELSE "None"
        purAction == IF purchasingRequest THEN d.pur.action ELSE "None"
        afterPay ==
          IF inputTxHashMatchPaymentRequest /\ ~payFails
          THEN handlePaymentTransactionCardanoV1(d, txHash, newState, tx.bid,
                                                 resultHash, payAction, <<0, 0>>)
          ELSE d
    IN IF newState = NULL THEN d
       ELSE IF inputTxHashMatchPurchasingRequest /\ ~purFails
       THEN handlePurchasingTransactionCardanoV1(afterPay, txHash, newState,
                                                 tx.bid, resultHash, purAction,
                                                 <<0, 0>>)
       ELSE afterPay

(***************************************************************************)
(* The terms and wallets of the one payment and its purchase.               *)
(***************************************************************************)
StoredTerms ==
  [payByTime |-> 2000, submitResultTime |-> 3000, unlockTime |-> 4000,
   externalDisputeUnlockTime |-> 5000, collateralReturnLovelace |-> 0]

SellerHotWallet == [id |-> "wSell", walletVkey |-> "vS", walletAddress |-> "aS"]
BuyerHotWallet  == [id |-> "wBuy", walletVkey |-> "vB", walletAddress |-> "aB"]
SellerBase      == [walletVkey |-> "vS", walletAddress |-> "aS"]
BuyerBase       == [walletVkey |-> "vB", walletAddress |-> "aB"]
\* WalletBase rows of type Seller of the payment source
SellerWalletBases == {SellerBase, [walletVkey |-> "vS2", walletAddress |-> "aS2"]}

RequestedFunds == <<[unit |-> "", amount |-> 1000000]>>

(***************************************************************************)
(* checkPaymentAmountsMatch (util.ts).  Amount lists are sequences of       *)
(* [unit, amount] (requested) and [unit, quantity] (output); the unit       *)
(* 'lovelace' in any case is rewritten to '' before it is compared.         *)
(***************************************************************************)
MIN_COLLATERAL_LOVELACE == 5000000

IsLovelace(unit) == unit \in {"lovelace", "Lovelace", "LOVELACE"}
NormUnit(unit) == IF IsLovelace(unit) THEN "" ELSE unit

\* actualAmounts.find(...): index of the first entry of the unit, 0 for none
RECURSIVE FindUnit(_, _, _)
FindUnit(actualAmounts, unit, i) ==
  IF i > Len(actualAmounts) THEN 0
  ELSE IF NormUnit(actualAmounts[i].unit) = unit THEN i
  ELSE FindUnit(actualAmounts, unit, i + 1)

\* a collateral has to be at least MIN_COLLATERAL_LOVELACE, zero is refused
checkPaymentAmountsMatchWithoutZero(expectedAmounts, actualAmounts, collateralReturn) ==
  IF collateralReturn < MIN_COLLATERAL_LOVELACE THEN FALSE
  ELSE \A k \in 1..Len(expectedAmounts) :
         LET unit == NormUnit(expectedAmounts[k].unit)
             j == FindUnit(actualAmounts, unit, 1)
         IN /\ j # 0
            /\ IF unit = ""
               THEN expectedAmounts[k].amount
                      <= actualAmounts[j].quantity - collateralReturn
               ELSE expectedAmounts[k].amount = actualAmounts[j].quantity

\* every unit, not only lovelace, may be overpaid
checkPaymentAmountsMatchAtLeast(expectedAmounts, actualAmounts, collateralReturn) ==
  IF collateralReturn < 0 THEN FALSE
  ELSE IF collateralReturn > 0 /\ collateralReturn < MIN_COLLATERAL_LOVELACE
  THEN FALSE
  ELSE \A k \in 1..Len(expectedAmounts) :
         LET unit == NormUnit(expectedAmounts[k].unit)
             j == FindUnit(actualAmounts, unit, 1)
         IN /\ j # 0
            /\ IF unit = ""
               THEN expectedAmounts[k].amount
                      <= actualAmounts[j].quantity - collateralReturn
               ELSE expectedAmounts[k].amount <= actualAmounts[j].quantity

checkPaymentAmountsMatch(expectedAmounts, actualAmounts, collateralReturn) ==
  IF collateralReturn < 0 THEN FALSE
  ELSE IF collateralReturn > 0 /\ collateralReturn < MIN_COLLATERAL_LOVELACE
  THEN FALSE
  ELSE \A k \in 1..Len(expectedAmounts) :
         LET unit == NormUnit(expectedAmounts[k].unit)
             j == FindUnit(actualAmounts, unit, 1)
         IN /\ j # 0
            /\ IF unit = ""
               THEN expectedAmounts[k].amount
                      <= actualAmounts[j].quantity - collateralReturn
               ELSE expectedAmounts[k].amount = actualAmounts[j].quantity

\* The units of the output as checkPaymentAmountsMatch leaves them: every
\* entry a find() looked at has its lovelace unit rewritten; every() stops at
\* the first requested amount that does not match.
RECURSIVE VisitedUpTo(_, _, _, _)
VisitedUpTo(expectedAmounts, actualAmounts, collateralReturn, k) ==
  IF k > Len(expectedAmounts) THEN 0
  ELSE LET unit == NormUnit(expectedAmounts[k].unit)
           j == FindUnit(actualAmounts, unit, 1)
           seen == IF j = 0 THEN Len(actualAmounts) ELSE j
           ok == checkPaymentAmountsMatch(<<expectedAmounts[k]>>, actualAmounts,
                                          collateralReturn)
           rest == IF ok THEN VisitedUpTo(expectedAmounts, actualAmounts,
                                          collateralReturn, k + 1)
                   ELSE 0
       IN IF seen > rest THEN seen ELSE rest

UnitsAfterCheck(expectedAmounts, actualAmounts, collateralReturn) ==
  LET entered == ~(collateralReturn < 0)
                 /\ ~(collateralReturn > 0
                      /\ collateralReturn < MIN_COLLATERAL_LOVELACE)
      visited == IF entered
                 THEN VisitedUpTo(expectedAmounts, actualAmounts,
                                  collateralReturn, 1)
                 ELSE 0
  IN [i \in 1..Len(actualAmounts) |->
        IF i <= visited THEN NormUnit(actualAmounts[i].unit)
        ELSE actualAmounts[i].unit]

CountNonEmpty(units) == Cardinality({i \in 1..Len(units) : units[i] # ""})

(***************************************************************************)
(* updateInitialPurchaseTransaction (tx/index.ts).  output is               *)
(* [datum, referenceScript, amount]; tx is [hash, blockTime,                *)
(* inputAddresses]; block time is in seconds, the datum times in ms.        *)
(***************************************************************************)
ManualAction(req, note) ==
  [req EXCEPT !.action = "WaitingForManualAction", !.errorNote = <<note>>]

\* a block time equal to pay-by time counts as too late
BlockTimeNotBeforePayByTime(tx, decodedNewContract) ==
  tx.blockTime * 1000 >= decodedNewContract.payByTime

\* blockTime * 1000 > decodedNewContract.payByTime, on both paths
BlockTimeAfterPayByTime(tx, decodedNewContract) ==
  tx.blockTime * 1000 > decodedNewContract.payByTime

\* only the seller of the datum is compared
PurchaseChecksSellerOnly(dbEntry, decodedNewContract, output, tx) ==
  /\ decodedNewContract.sellerVkey = dbEntry.sellerWallet[1].walletVkey
  /\ decodedNewContract.sellerAddress = dbEntry.sellerWallet[1].walletAddress

\* the returns between the reference-script check and the update
PurchaseChecksPass(dbEntry, decodedNewContract, output, tx) ==
  /\ output.referenceScript = FALSE
  /\ ~(\/ decodedNewContract.sellerVkey # dbEntry.sellerWallet[1].walletVkey
       \/ decodedNewContract.sellerAddress # dbEntry.sellerWallet[1].walletAddress)
  /\ decodedNewContract.buyerAddress \in tx.inputAddresses
  /\ decodedNewContract.collateralReturnLovelace
       = dbEntry.terms.collateralReturnLovelace
  /\ decodedNewContract.payByTime = dbEntry.terms.payByTime
  /\ ~BlockTimeAfterPayByTime(tx, decodedNewContract)
  /\ ~(\/ decodedNewContract.buyerVkey
            # dbEntry.smartContractWallet[1].walletVkey
       \/ decodedNewContract.buyerAddress
            # dbEntry.smartContractWallet[1].walletAddress)
  /\ ~(decodedNewContract.state \in {"RefundRequested", "Disputed"})
  /\ decodedNewContract.resultHash = ""
  /\ decodedNewContract.resultTime = dbEntry.terms.submitResultTime
  /\ ~(decodedNewContract.unlockTime < dbEntry.terms.unlockTime)
  /\ decodedNewContract.externalDisputeUnlockTime
       = dbEntry.terms.externalDisputeUnlockTime
  /\ decodedNewContract.buyerCooldownTime = 0
  /\ decodedNewContract.sellerCooldownTime = 0

\* the update that leaves the lock of the previous transaction in place
ApplyInitialPurchaseKeepingLock(d, dbEntry, decodedNewContract, tx) ==
  LET old == dbEntry.cur
      rows == Append(d.tx, TxRow(tx.hash, "Confirmed", NoWallet))
  IN [d EXCEPT
        !.pur = [dbEntry EXCEPT
                   !.inputHash = decodedNewContract.inputHash,
                   !.action = "WaitingForExternalAction",
                   !.errorNote = <<>>,
                   !.hist = IF old # 0 THEN @ \cup {old} ELSE @,
                   !.cur = Len(rows),
                   !.onChainState = "FundsLocked",
                   !.resultHash = decodedNewContract.resultHash],
        !.tx = rows]

\* the update after the last check, and the release of the wallet
ApplyInitialPurchase(d, dbEntry, decodedNewContract, tx) ==
  LET old == dbEntry.cur
      unlock == old # 0 /\ d.tx[old].blocksWallet # NoWallet
      rows == Append(d.tx, TxRow(tx.hash, "Confirmed", NoWallet))
  IN [d EXCEPT
        !.pur = [dbEntry EXCEPT
                   !.inputHash = decodedNewContract.inputHash,
                   !.action = "WaitingForExternalAction",
                   !.errorNote = <<>>,
                   !.hist = IF old # 0 THEN @ \cup {old} ELSE @,
                   !.cur = Len(rows),
                   !.onChainState = "FundsLocked",
                   !.resultHash = decodedNewContract.resultHash],
        !.tx = IF unlock THEN [rows EXCEPT ![old].blocksWallet = NoWallet]
               ELSE rows,
        !.lockedAt = IF unlock
                     THEN [@ EXCEPT ![dbEntry.smartContractWallet[1].id] = FALSE]
                     ELSE @]

updateInitialPurchaseTransaction(d, decodedNewContract, output, tx) ==
  LET dbEntry == d.pur IN
  IF [walletVkey |-> decodedNewContract.sellerVkey,
      walletAddress |-> decodedNewContract.sellerAddress] \notin SellerWalletBases
  THEN d
  ELSE IF ~(dbEntry.exists
            /\ dbEntry.bid = decodedNewContract.blockchainIdentifier
            /\ dbEntry.action = "FundsLockingInitiated")
  THEN d
  ELSE IF dbEntry.smartContractWallet = None
  THEN [d EXCEPT !.pur = ManualAction(dbEntry, "No smart contract wallet set")]
  ELSE IF dbEntry.sellerWallet = None
  THEN [d EXCEPT !.pur = ManualAction(dbEntry, "No seller wallet set")]
  ELSE IF ~PurchaseChecksPass(dbEntry, decodedNewContract, output, tx)
  THEN d
  ELSE ApplyInitialPurchase(d, dbEntry, decodedNewContract, tx)

(***************************************************************************)
(* updateInitialPaymentTransaction (tx/index.ts): every failed check adds   *)
(* its message to errorNote and turns the result into FundsOrDatumInvalid / *)
(* WaitingForManualAction.                                                  *)
(***************************************************************************)
PaymentViolations(dbEntry, decodedNewContract, output, tx) ==
  LET Msg(failed, text) == IF failed THEN <<text>> ELSE <<>>
      valueMatches == checkPaymentAmountsMatch(
                        dbEntry.requestedFunds, output.amount,
                        decodedNewContract.collateralReturnLovelace)
      outputUnits == UnitsAfterCheck(dbEntry.requestedFunds, output.amount,
                                     decodedNewContract.collateralReturnLovelace)
      requestedUnits == [i \in 1..Len(dbEntry.requestedFunds) |->
                           IF valueMatches
                           THEN NormUnit(dbEntry.requestedFunds[i].unit)
                           ELSE dbEntry.requestedFunds[i].unit]
      paymentCountMatches ==
        CountNonEmpty(requestedUnits) = CountNonEmpty(outputUnits)
  IN
     Msg(decodedNewContract.payByTime # dbEntry.terms.payByTime,
         "Pay by time does not match pay by time in db")
  \o Msg(BlockTimeAfterPayByTime(tx, decodedNewContract),
         "Block time is after pay by time")
  \o Msg(output.referenceScript, "Reference script hash is not null")
  \o Msg(\/ decodedNewContract.sellerVkey
              # dbEntry.smartContractWallet[1].walletVkey
         \/ decodedNewContract.sellerAddress
              # dbEntry.smartContractWallet[1].walletAddress,
         "Seller does not match seller in db")
  \o Msg(decodedNewContract.state \in {"RefundRequested", "Disputed"},
         "Refund was requested")
  \o Msg(decodedNewContract.resultHash # "", "Result hash was set")
  \o Msg(decodedNewContract.resultTime # dbEntry.terms.submitResultTime,
         "Result time is not the agreed upon time")
  \o Msg(decodedNewContract.unlockTime # dbEntry.terms.unlockTime,
         "Unlock time is before the agreed upon time")
  \o Msg(decodedNewContract.externalDisputeUnlockTime
           # dbEntry.terms.externalDisputeUnlockTime,
         "External dispute unlock time is not the agreed upon time")
  \o Msg(decodedNewContract.buyerCooldownTime # 0, "Buyer cooldown time is not 0")
  \o Msg(decodedNewContract.sellerCooldownTime # 0, "Seller cooldown time is not 0")
  \o Msg(~valueMatches, "Payment amounts do not match")
  \o Msg(~paymentCountMatches, "Token counts do not match")

\* a request that already has a BuyerWallet is found as well
FindPaymentRequestAnyBuyer(dbEntry, decodedNewContract) ==
  /\ dbEntry.exists
  /\ dbEntry.bid = decodedNewContract.blockchainIdentifier
  /\ dbEntry.action = "WaitingForExternalAction"

\* lines 772-781: the where clause of findUnique
FindPaymentRequest(dbEntry, decodedNewContract) ==
  /\ dbEntry.exists
  /\ dbEntry.bid = decodedNewContract.blockchainIdentifier
  /\ dbEntry.buyerWallet = None
  /\ dbEntry.action = "WaitingForExternalAction"

updateInitialPaymentTransaction(d, decodedNewContract, output, tx) ==
  LET dbEntry == d.pay IN
  IF ~FindPaymentRequest(dbEntry, decodedNewContract)
  THEN d
  ELSE IF dbEntry.smartContractWallet = None
  THEN [d EXCEPT !.pay = ManualAction(dbEntry, "No smart contract wallet set")]
  ELSE IF decodedNewContract.buyerAddress \notin tx.inputAddresses
  THEN d
  ELSE
    LET errorNote == PaymentViolations(dbEntry, decodedNewContract, output, tx)
        old == dbEntry.cur
        rows == Append(d.tx, TxRow(tx.hash, "Confirmed", NoWallet))
    IN [d EXCEPT
          !.pay = [dbEntry EXCEPT
                     !.terms.collateralReturnLovelace =
                        decodedNewContract.collateralReturnLovelace,
                     !.action = IF errorNote = <<>>
                                THEN "WaitingForExternalAction"
                                ELSE "WaitingForManualAction",
                     !.errorNote = errorNote,
                     !.hist = IF old # 0 THEN @ \cup {old} ELSE @,
                     !.cur = Len(rows),
                     !.onChainState = IF errorNote = <<>> THEN "FundsLocked"
                                      ELSE "FundsOrDatumInvalid",
                     !.resultHash = decodedNewContract.resultHash,
                     !.buyerWallet =
                        Some([walletVkey |-> decodedNewContract.buyerVkey,
                              walletAddress |-> decodedNewContract.buyerAddress])],
          !.tx = rows]

\* updateInitialTransactions: every script output with a decodable datum is
\* tried on the purchase and then on the payment
RECURSIVE updateInitialTransactions(_, _, _)
updateInitialTransactions(d, valueOutputs, tx) ==
  IF valueOutputs = <<>> THEN d
  ELSE LET output == Head(valueOutputs)
           next == IF output.datum = None THEN d
                   ELSE updateInitialPaymentTransaction(
                          updateInitialPurchaseTransaction(d, output.datum[1],
                                                           output, tx),
                          output.datum[1], output, tx)
       IN updateInitialTransactions(next, Tail(valueOutputs), tx)

\* the PaymentRequest and PurchaseRequest rows of one blockchainIdentifier
PaymentRequest(action, cur, onChainState, buyerWallet) ==
  [exists |-> TRUE, bid |-> "b1", action |-> action, errorNote |-> <<>>,
   cur |-> cur, hist |-> {}, onChainState |-> onChainState, resultHash |-> "",
   cooldown |-> <<0, 0>>, terms |-> StoredTerms,
   smartContractWallet |-> Some(SellerHotWallet), buyerWallet |-> buyerWallet,
   requestedFunds |-> RequestedFunds]

PurchaseRequest(action, cur, onChainState) ==
  [exists |-> TRUE, bid |-> "b1", action |-> action, errorNote |-> <<>>,
   cur |-> cur, hist |-> {}, onChainState |-> onChainState, resultHash |-> "",
   cooldown |-> <<0, 0>>, terms |-> StoredTerms, inputHash |-> "e3b0",
   smartContractWallet |-> Some(BuyerHotWallet), sellerWallet |-> Some(SellerBase)]

(***************************************************************************)
(* The database after the Initial transaction 1 was applied to both         *)
(* mirrors: each has a Confirmed current transaction with hash 1.           *)
(***************************************************************************)
DbFundsLocked ==
  [tx |-> <<TxRow(1, "Confirmed", NoWallet), TxRow(1, "Confirmed", NoWallet)>>,
   pay |-> PaymentRequest("WaitingForExternalAction", 1, "FundsLocked",
                          Some(BuyerBase)),
   pur |-> PurchaseRequest("WaitingForExternalAction", 2, "FundsLocked"),
   lockedAt |-> [w \in Wallets |-> FALSE]]

(***************************************************************************)
(* The database while the lock-funds transaction of the purchase is in      *)
(* flight: the payment was created by the seller and waits for the buyer,   *)
(* the purchase is FundsLockingInitiated with a Pending current transaction *)
(* that blocks the purchasing wallet.                                       *)
(***************************************************************************)
DbFundsLockingInitiated ==
  [tx |-> <<TxRow(1, "Pending", "wBuy")>>,
   pay |-> PaymentRequest("WaitingForExternalAction", 0, NULL, None),
   pur |-> PurchaseRequest("FundsLockingInitiated", 1, NULL),
   lockedAt |-> [w \in Wallets |-> w = "wBuy"]]

DbIdle == db = DbFundsLocked

\* ---- SpecMirror: the sync loop hands script transactions to
\* updateTransaction, in chain order; a transaction whose extended
\* information could not be fetched is left out.
MaxHandled == 3
MirrorHashes == {2, 3, 21, 22, 23} \cup {41, 42, 60, 71, 80}

MirrorIdle ==
  mirrorLog = [last |-> NoTx, top |-> 1, count |-> 0, before |-> DbFundsLocked]

MirrorInit == DbIdle /\ MirrorIdle

UpdateTransaction(h, payFails, purFails) ==
  /\ mirrorLog.count < MaxHandled
  /\ h \in 2..Deep => h >= mirrorLog.top
  /\ ChainTx(h).kind = "Transaction"
  /\ db' = updateTransaction(db, h, payFails, purFails)
  /\ mirrorLog' = [last |-> h,
                   top |-> IF h \in 2..Deep THEN h ELSE mirrorLog.top,
                   count |-> mirrorLog.count + 1, before |-> db]
  /\ UNCHANGED notMirror

\* ---- SpecInitial: the sync loop hands one script output of a confirmed
\* Initial transaction to updateInitialTransactions.  The output is the one
\* the purchase expects, changed in at most MaxDeviations places; it arrives
\* while the purchase waits for it or after it was applied.
MaxDeviations == 2

ValidDatum ==
  [buyerVkey |-> "vB", buyerAddress |-> "aB", sellerVkey |-> "vS",
   sellerAddress |-> "aS", blockchainIdentifier |-> "b1", resultHash |-> "",
   resultTime |-> 3000, unlockTime |-> 4000, externalDisputeUnlockTime |-> 5000,
   payByTime |-> 2000, buyerCooldownTime |-> 0, sellerCooldownTime |-> 0,
   state |-> "FundsLocked", inputHash |-> "e3b0", collateralReturnLovelace |-> 0]

ValidInput ==
  [datum |-> ValidDatum, referenceScript |-> FALSE,
   amount |-> <<[unit |-> "lovelace", quantity |-> 1000000]>>,
   hash |-> 1, blockTime |-> 1, inputAddresses |-> {"aB"}]

Deviations ==
  <<"sellerVkey", "sellerOther", "buyerVkey", "buyerAddress", "inputs",
    "payByTime", "resultTime", "externalDisputeUnlockTime", "unlockEarlier",
    "unlockLater", "collateral", "buyerCooldown", "sellerCooldown",
    "stateRefundRequested", "stateDisputed", "stateResultSubmitted",
    "resultHash", "blockTime", "referenceScript", "blockchainIdentifier",
    "inputHash", "amount", "blockTimeEqual">>

Deviate(in, name) ==
  CASE name = "sellerVkey" -> [in EXCEPT !.datum.sellerVkey = "vS2"]
    [] name = "sellerOther" -> [in EXCEPT !.datum.sellerVkey = "vS2",
                                          !.datum.sellerAddress = "aS2"]
    [] name = "buyerVkey" -> [in EXCEPT !.datum.buyerVkey = "vX"]
    [] name = "buyerAddress" -> [in EXCEPT !.datum.buyerAddress = "aX",
                                           !.inputAddresses = @ \cup {"aX"}]
    [] name = "inputs" -> [in EXCEPT !.inputAddresses = {"aX"}]
    [] name = "payByTime" -> [in EXCEPT !.datum.payByTime = 2500]
    [] name = "resultTime" -> [in EXCEPT !.datum.resultTime = 3500]
    [] name = "externalDisputeUnlockTime" ->
         [in EXCEPT !.datum.externalDisputeUnlockTime = 5500]
    [] name = "unlockEarlier" -> [in EXCEPT !.datum.unlockTime = 3999]
    [] name = "unlockLater" -> [in EXCEPT !.datum.unlockTime = 4001]
    [] name = "collateral" ->
         [in EXCEPT !.datum.collateralReturnLovelace = MIN_COLLATERAL_LOVELACE]
    [] name = "buyerCooldown" -> [in EXCEPT !.datum.buyerCooldownTime = 7]
    [] name = "sellerCooldown" -> [in EXCEPT !.datum.sellerCooldownTime = 7]
    [] name = "stateRefundRequested" -> [in EXCEPT !.datum.state = "RefundRequested"]
    [] name = "stateDisputed" -> [in EXCEPT !.datum.state = "Disputed"]
    [] name = "stateResultSubmitted" -> [in EXCEPT !.datum.state = "ResultSubmitted"]
    [] name = "resultHash" -> [in EXCEPT !.datum.resultHash = "ff00"]
    [] name = "blockTime" -> [in EXCEPT !.blockTime = 3]
    [] name = "referenceScript" -> [in EXCEPT !.referenceScript = TRUE]
    [] name = "blockchainIdentifier" ->
         [in EXCEPT !.datum.blockchainIdentifier = "b2"]
    [] name = "inputHash" -> [in EXCEPT !.datum.inputHash = "0a0a"]
    [] name = "amount" -> [in EXCEPT !.amount[1].quantity = 999999]
    [] name = "blockTimeEqual" -> [in EXCEPT !.blockTime = 2]

RECURSIVE DeviateAll(_, _, _)
DeviateAll(in, chosen, i) ==
  IF i > Len(Deviations) THEN in
  ELSE DeviateAll(IF i \in chosen THEN Deviate(in, Deviations[i]) ELSE in,
                  chosen, i + 1)

InitialInputs ==
  {DeviateAll(ValidInput, chosen, 1) :
     chosen \in {c \in SUBSET (1..Len(Deviations)) :
                   Cardinality(c) <= MaxDeviations}}

InitialIdle ==
  iniLog = [input |-> ValidInput, handled |-> FALSE, before |-> DbFundsLocked,
            calls |-> 0, start |-> DbFundsLocked]

InitialInit ==
  /\ db \in {DbFundsLockingInitiated, DbFundsLocked}
  /\ iniLog = [input |-> ValidInput, handled |-> FALSE, before |-> db,
               calls |-> 0, start |-> db]

UpdateInitialTransactions(input) ==
  /\ ~iniLog.handled
  /\ db' = updateInitialTransactions(
             db,
             <<[datum |-> Some(input.datum),
                referenceScript |-> input.referenceScript,
                amount |-> input.amount]>>,
             [hash |-> input.hash, blockTime |-> input.blockTime,
              inputAddresses |-> input.inputAddresses])
  /\ iniLog' = [input |-> input, handled |-> TRUE, before |-> db,
                calls |-> 1, start |-> db]
  /\ UNCHANGED notInitial

\* ---- SpecRepeat: two Initial transactions, 1 and then 40, with outputs for
\* the same PaymentRequest; the request may have lost its selling wallet.
\* iniLog.start is the store before the first, iniLog.before the store
\* before the second.
RepeatInit ==
  /\ db \in {DbFundsLockingInitiated,
              [DbFundsLockingInitiated EXCEPT !.pay.smartContractWallet = None]}
  /\ iniLog = [input |-> ValidInput, handled |-> FALSE, before |-> db,
               calls |-> 0, start |-> db]

RepeatInputs ==
  {[in EXCEPT !.hash = 40, !.blockTime = 2] :
     in \in {ValidInput} \cup {Deviate(ValidInput, Deviations[i]) :
                                 i \in 1..Len(Deviations)}}

UpdateInitialTransactionsAgain(input) ==
  /\ iniLog.calls = 1
  /\ db' = updateInitialTransactions(
             db,
             <<[datum |-> Some(input.datum),
                referenceScript |-> input.referenceScript,
                amount |-> input.amount]>>,
             [hash |-> input.hash, blockTime |-> input.blockTime,
              inputAddresses |-> input.inputAddresses])
  /\ iniLog' = [input |-> input, handled |-> TRUE, before |-> db,
                calls |-> 2, start |-> iniLog.start]
  /\ UNCHANGED notInitial

\* ---- SpecSync: the transactions of the script address come and go
\* (AppendTx, Rollback) and checkLatestTransactions runs one cycle after the
\* other on the payment source: discovery, rollback handling and fetch of
\* the extended information in one step, then one transaction per step.  The chain moves
\* between two cycles; what it does during a cycle reaches the cycle only as
\* a failed fetch.  A chain holds a transaction once and no two spenders of
\* one output, which bounds its length.
BLOCK_CONFIRMATIONS_THRESHOLD == 1
MaxRollbacks == 1
MaxFailures == 1
PageSize == 2
SyncHashes == {1, 2, 3, 30}
\* a chain with a transaction of invalid shape between two valid ones
SkipHashes == {1, 70, 71}
BlockTimes == {1, 3}

Reverse(q) == [i \in 1..Len(q) |-> q[Len(q) + 1 - i]]
Hashes(txs) == [i \in 1..Len(txs) |-> txs[i].hash]

\* findIndex + 1: the first position of h, 0 for none
IndexOf(q, h) ==
  IF \E i \in 1..Len(q) : q[i] = h
  THEN CHOOSE i \in 1..Len(q) : q[i] = h /\ \A j \in 1..(i - 1) : q[j] # h
  ELSE 0

\* detectRollbackForTxPage (blockchain.ts): txs is the page, newest first
detectRollbackForTxPage(txs, identifiers, latestIdentifier, latestTx) ==
  LET hits == {i \in 1..Len(txs) : txs[i].hash \in SeqToSet(identifiers)} IN
  IF hits = {}
  THEN [found |-> FALSE, rolledBackTx |-> <<>>, foundIndex |-> 0, fork |-> NoTx]
  ELSE
    LET i == CHOOSE k \in hits : \A j \in hits : k <= j
        exists == IndexOf(identifiers, txs[i].hash)
        newerThanRollbackTxs == SubSeq(identifiers, exists, Len(identifiers))
        NotInLatestTx(h) == h \notin SeqToSet(Hashes(latestTx))
        rolledBackTx == SelectSeq(Append(newerThanRollbackTxs, latestIdentifier),
                                  NotInLatestTx)
    IN [found |-> TRUE, rolledBackTx |-> Reverse(rolledBackTx),
        foundIndex |-> IndexOf(Hashes(latestTx), txs[i].hash),
        fork |-> txs[i].hash]

\* the do-while loop of getTxsFromCardanoAfterSpecificTx, one page per call
RECURSIVE TxPages(_, _, _, _, _)
TxPages(desc, identifiers, latestIdentifier, index, latestTx) ==
  LET lo == (index - 1) * PageSize + 1
      hi == IF index * PageSize < Len(desc) THEN index * PageSize ELSE Len(desc)
      txs == IF lo > hi THEN <<>> ELSE SubSeq(desc, lo, hi)
      pushed == latestTx \o txs
  IN IF txs = <<>>
     THEN [latestTx |-> latestTx, rolledBackTx |-> <<>>, fork |-> NoTx]
     ELSE IF latestIdentifier \in SeqToSet(Hashes(txs))
     THEN [latestTx |-> SubSeq(pushed, 1,
                               IndexOf(Hashes(pushed), latestIdentifier) - 1),
           rolledBackTx |-> <<>>, fork |-> NoTx]
     ELSE IF latestIdentifier # NoTx
     THEN LET rollbackInfo == detectRollbackForTxPage(txs, identifiers,
                                                      latestIdentifier, pushed)
          IN IF rollbackInfo.found
             THEN [latestTx |-> SubSeq(pushed, 1, rollbackInfo.foundIndex - 1),
                   rolledBackTx |-> rollbackInfo.rolledBackTx,
                   fork |-> rollbackInfo.fork]
             ELSE TxPages(desc, identifiers, latestIdentifier, index + 1, pushed)
     ELSE TxPages(desc, identifiers, latestIdentifier, index + 1, pushed)

\* every transaction of the address, whatever the cursor
getTxsFromCardanoAfterSpecificTxUncut(desc, identifiers, latestIdentifier) ==
  [latestTx |-> Reverse(desc), rolledBackTx |-> <<>>, fork |-> NoTx]

\* desc: the transactions of the address, newest first; latestTx comes back
\* oldest first
getTxsFromCardanoAfterSpecificTx(desc, identifiers, latestIdentifier) ==
  LET r == TxPages(desc, identifiers, latestIdentifier, 1, <<>>)
  IN [r EXCEPT !.latestTx = Reverse(@)]

\* txData.sort((a, b) => a.blockTime - b.blockTime): a stable sort
RECURSIVE InsertByBlockTime(_, _)
InsertByBlockTime(sorted, x) ==
  IF sorted = <<>> THEN <<x>>
  ELSE IF x.time < Head(sorted).time THEN <<x>> \o sorted
  ELSE <<Head(sorted)>> \o InsertByBlockTime(Tail(sorted), x)

RECURSIVE InsertByBlockTimeDescending(_, _)
InsertByBlockTimeDescending(sorted, x) ==
  IF sorted = <<>> THEN <<x>>
  ELSE IF x.time > Head(sorted).time THEN <<x>> \o sorted
  ELSE <<Head(sorted)>> \o InsertByBlockTimeDescending(Tail(sorted), x)

\* largest block time first
RECURSIVE SortByBlockTimeDescending(_)
SortByBlockTimeDescending(txData) ==
  IF txData = <<>> THEN <<>>
  ELSE InsertByBlockTimeDescending(
         SortByBlockTimeDescending(SubSeq(txData, 1, Len(txData) - 1)),
         txData[Len(txData)])

RECURSIVE SortByBlockTime(_)
SortByBlockTime(txData) ==
  IF txData = <<>> THEN <<>>
  ELSE InsertByBlockTime(SortByBlockTime(SubSeq(txData, 1, Len(txData) - 1)),
                         txData[Len(txData)])

\* getExtendedTxInformation: the transaction at position failed (0: none)
\* could not be fetched; the newest one has tipConfirmations
\* confirmations and every older one one more than its successor; the block
\* is only fetched when the threshold is positive
getExtendedTxInformation(latestTxs, failed, tipConfirmations) ==
  LET fetched == [i \in 1..Len(latestTxs) |->
                    [hash |-> latestTxs[i].hash, time |-> latestTxs[i].time,
                     confirmations |->
                       IF BLOCK_CONFIRMATIONS_THRESHOLD > 0
                       THEN tipConfirmations + (Len(latestTxs) - i) ELSE 0,
                     success |-> i # failed]]
      Succeeded(x) == x.success
  IN SortByBlockTime(SelectSeq(fetched, Succeeded))

\* a transaction with exactly the threshold counts as unconfirmed
NotAboveConfirmationThreshold(tx) ==
  tx.confirmations <= BLOCK_CONFIRMATIONS_THRESHOLD

\* tx.block.confirmations < CONFIG.BLOCK_CONFIRMATIONS_THRESHOLD
BelowConfirmationThreshold(tx) ==
  tx.confirmations < BLOCK_CONFIRMATIONS_THRESHOLD

\* the Transaction rows with one of the hashes
RowsOf(d, hashes) == {i \in 1..Len(d.tx) : d.tx[i].txHash \in hashes}

\* updateRolledBackTransaction (tx/index.ts)
updateRolledBackTransaction(d, rolledBackTx) ==
  LET rows == RowsOf(d, SeqToSet(rolledBackTx))
      unlocked == {d.tx[i].blocksWallet : i \in rows} \ {NoWallet}
      Referenced(req) == req.exists /\ (req.cur \in rows \/ req.hist \cap rows # {})
      Flagged(req) ==
        IF Referenced(req)
        THEN [req EXCEPT !.action = "WaitingForManualAction",
                         !.errorNote = <<RollbackNote>>]
        ELSE req
  IN [d EXCEPT
        !.tx = [i \in 1..Len(d.tx) |->
                  IF i \in rows
                  THEN [d.tx[i] EXCEPT !.status = "RolledBack",
                                       !.blocksWallet = NoWallet]
                  ELSE d.tx[i]],
        !.lockedAt = [w \in Wallets |-> IF w \in unlocked THEN FALSE ELSE @[w]],
        !.pay = Flagged(@),
        !.pur = Flagged(@)]

\* the script outputs and the input addresses of the Initial transaction 1
ValueOutputs(h) ==
  IF h = 1
  THEN <<[datum |-> Some(ValidDatum), referenceScript |-> FALSE,
          amount |-> ValidInput.amount]>>
  ELSE <<>>

InputAddresses(h) == IF h = 1 THEN {"aB"} ELSE {}

\* step: the last iteration of the loop over txData, in this cycle
CycleIdle ==
  [pc |-> "idle", latestIdentifier |-> NoTx, txData |-> <<>>,
   rolledBackTx |-> <<>>, fork |-> NoTx, applied |-> <<>>, step |-> None,
   gate |-> None, unfetched |-> None]

SyncLogInit ==
  [rollbacks |-> 0, failures |-> 0, cursorWriteFailed |-> FALSE,
   cursorTime |-> 0, maxAppliedTime |-> 0, lastAppliedTime |-> 0]

SyncIdle ==
  /\ chain = <<>>
  /\ lastIdentifierChecked = NoTx
  /\ paymentSourceIdentifiers = <<>>
  /\ cycle = CycleIdle
  /\ syncLog = SyncLogInit

SyncInit == db = DbFundsLockingInitiated /\ SyncIdle

\* a transaction is included in a new block
AppendTx(h, t) ==
  /\ cycle.pc = "idle"
  /\ h \notin SeqToSet(Hashes(chain))
  /\ \A j \in 1..Len(ChainTx(h).inputs) :
       /\ ChainTx(h).inputs[j] \in SeqToSet(Hashes(chain))
       /\ \A i \in 1..Len(chain) :
            ChainTx(h).inputs[j] \notin SeqToSet(ChainTx(chain[i].hash).inputs)
  /\ chain # <<>> => t >= chain[Len(chain)].time
  /\ chain' = Append(chain, [hash |-> h, time |-> t])
  /\ UNCHANGED <<db, lastIdentifierChecked, paymentSourceIdentifiers, cycle,
                 syncLog, notSync>>

\* the chain forks: only the oldest keep transactions stay
Rollback(keep) ==
  /\ cycle.pc = "idle"
  /\ syncLog.rollbacks < MaxRollbacks
  /\ keep < Len(chain)
  /\ chain' = SubSeq(chain, 1, keep)
  /\ syncLog' = [syncLog EXCEPT !.rollbacks = @ + 1]
  /\ UNCHANGED <<db, lastIdentifierChecked, paymentSourceIdentifiers, cycle,
                 notSync>>

\* checkLatestTransactions from the discovery to the start of the loop over
\* txData: the return when there is no new transaction, the rollback
\* handling, the fetch of the extended information
StartCycle(failed, tipConfirmations) ==
  /\ cycle.pc = "idle"
  /\ LET r == getTxsFromCardanoAfterSpecificTx(
                Reverse(chain), paymentSourceIdentifiers, lastIdentifierChecked)
         txData == getExtendedTxInformation(r.latestTx, failed, tipConfirmations)
     IN /\ failed \in 0..Len(r.latestTx)
        /\ failed # 0 => syncLog.failures < MaxFailures
        /\ db' = IF r.latestTx # <<>> /\ r.rolledBackTx # <<>>
                 THEN updateRolledBackTransaction(db, r.rolledBackTx)
                 ELSE db
        /\ cycle' = [CycleIdle EXCEPT
                       !.pc = IF txData = <<>> THEN "done" ELSE "process",
                       !.latestIdentifier = lastIdentifierChecked,
                       !.txData = txData,
                       !.rolledBackTx = r.rolledBackTx,
                       !.fork = r.fork,
                       !.unfetched = IF failed = 0 THEN None
                                     ELSE Some(r.latestTx[failed])]
        /\ syncLog' = [syncLog EXCEPT !.failures = IF failed # 0 THEN @ + 1 ELSE @]
  /\ UNCHANGED <<chain, lastIdentifierChecked, paymentSourceIdentifiers, notSync>>

\* line 86: if (extractedData.type == 'Invalid') ... continue
SkipsNothing(type) == FALSE

SkipsInvalid(type) == type = "Invalid"

\* one iteration of the loop over txData: the try block, then the finally
\* block.  applyThrows: updateInitialTransactions / updateTransaction throws
\* before it wrote; cursorWriteThrows: the update of lastIdentifierChecked
\* throws.
ProcessTx(applyThrows, cursorWriteThrows) ==
  /\ cycle.pc = "process"
  /\ LET tx == Head(cycle.txData)
         type == ChainTx(tx.hash).kind
         failures == (IF applyThrows THEN 1 ELSE 0)
                     + (IF cursorWriteThrows THEN 1 ELSE 0)
         applies == ~SkipsInvalid(type) /\ ~applyThrows
         dbApplied ==
           IF type = "Initial"
           THEN updateInitialTransactions(
                  db, ValueOutputs(tx.hash),
                  [hash |-> tx.hash, blockTime |-> tx.time,
                   inputAddresses |-> InputAddresses(tx.hash)])
           ELSE updateTransaction(db, tx.hash, FALSE, FALSE)
     IN
       IF BelowConfirmationThreshold(tx)
       THEN /\ ~applyThrows /\ ~cursorWriteThrows
            /\ cycle' = [cycle EXCEPT
                           !.pc = "done", !.step = None,
                           !.gate = Some([hash |-> tx.hash,
                                          confirmations |-> tx.confirmations,
                                          previous |-> cycle.step])]
            /\ UNCHANGED <<db, lastIdentifierChecked, paymentSourceIdentifiers,
                           syncLog>>
       ELSE
         /\ applyThrows => type # "Invalid"
         /\ syncLog.failures + failures <= MaxFailures
         /\ db' = IF applies THEN dbApplied ELSE db
         /\ lastIdentifierChecked' =
              IF cursorWriteThrows THEN lastIdentifierChecked ELSE tx.hash
         /\ paymentSourceIdentifiers' =
              IF ~cursorWriteThrows /\ cycle.latestIdentifier # NoTx
                 /\ cycle.latestIdentifier \notin SeqToSet(paymentSourceIdentifiers)
              THEN Append(paymentSourceIdentifiers, cycle.latestIdentifier)
              ELSE paymentSourceIdentifiers
         /\ cycle' =
              [cycle EXCEPT
                 !.pc = IF applyThrows \/ cursorWriteThrows \/ Len(cycle.txData) = 1
                        THEN "done" ELSE "process",
                 !.txData = Tail(@),
                 !.latestIdentifier = IF cursorWriteThrows THEN @ ELSE tx.hash,
                 !.applied = IF applies THEN Append(@, tx.time) ELSE @,
                 !.step = Some([hash |-> tx.hash, time |-> tx.time,
                                confirmations |-> tx.confirmations,
                                applied |-> applies,
                                applyThrew |-> applyThrows,
                                cursorWritten |-> ~cursorWriteThrows,
                                cursorBefore |-> lastIdentifierChecked,
                                appliedBefore |-> syncLog.lastAppliedTime])]
         /\ syncLog' =
              [syncLog EXCEPT
                 !.failures = @ + failures,
                 !.cursorWriteFailed = @ \/ cursorWriteThrows,
                 !.cursorTime = IF cursorWriteThrows THEN @ ELSE tx.time,
                 !.maxAppliedTime = IF applies /\ tx.time > @ THEN tx.time ELSE @,
                 !.lastAppliedTime = IF applies THEN tx.time ELSE @]
  /\ UNCHANGED <<chain, notSync>>

\* the promise of the payment source settles and the cycle is over
EndCycle ==
  /\ cycle.pc = "done"
  /\ cycle' = CycleIdle
  /\ UNCHANGED <<db, chain, lastIdentifierChecked, paymentSourceIdentifiers,
                 syncLog, notSync>>

\* ---- SpecAmounts: checkPaymentAmountsMatch as a pure function, called
\* once on requested amounts, the amounts of an output and a collateral
\* around zero and around MIN_COLLATERAL_LOVELACE
Collaterals ==
  {-1, 0, 1, MIN_COLLATERAL_LOVELACE - 1, MIN_COLLATERAL_LOVELACE,
   MIN_COLLATERAL_LOVELACE + 1}

ExpectedAmounts ==
  {<<>>, RequestedFunds, <<[unit |-> "lovelace", amount |-> 1000000]>>,
   <<[unit |-> "", amount |-> 1000000], [unit |-> "tok", amount |-> 5]>>}

ActualAmounts ==
  {<<>>,
   <<[unit |-> "lovelace", quantity |-> 1000000]>>,
   <<[unit |-> "lovelace", quantity |-> 999999 + MIN_COLLATERAL_LOVELACE]>>,
   <<[unit |-> "lovelace", quantity |-> 1000000 + MIN_COLLATERAL_LOVELACE]>>,
   <<[unit |-> "Lovelace", quantity |-> 1000001 + MIN_COLLATERAL_LOVELACE],
     [unit |-> "tok", quantity |-> 5]>>,
   <<[unit |-> "lovelace", quantity |-> 1000001 + MIN_COLLATERAL_LOVELACE],
     [unit |-> "tok", quantity |-> 6]>>}

AmountsIdle ==
  amt = [expectedAmounts |-> <<>>, actualAmounts |-> <<>>,
         collateralReturn |-> 0, result |-> "unset"]

AmountsInit ==
  \E e \in ExpectedAmounts, a \in ActualAmounts, c \in Collaterals :
    amt = [expectedAmounts |-> e, actualAmounts |-> a, collateralReturn |-> c,
           result |-> "unset"]

CallCheckPaymentAmountsMatch ==
  /\ amt.result = "unset"
  /\ amt' = [amt EXCEPT !.result =
               IF checkPaymentAmountsMatch(amt.expectedAmounts, amt.actualAmounts,
                                           amt.collateralReturn)
               THEN "true" ELSE "false"]
  /\ UNCHANGED notAmounts

(***************************************************************************)
(* Specifications.  Each one moves its own variables and holds the others   *)
(* at their idle values.                                                    *)
(***************************************************************************)
(***************************************************************************)
(* The register dispatcher (registerAgentV1) of two coordinators and the    *)
(* handlers of the sync loop that release a wallet, on one selling wallet.  *)
(* Every registry request of the model uses the wallet wSell; the payment   *)
(* request's result submission (transaction 2) may be in flight from the    *)
(* same wallet.                                                             *)
(***************************************************************************)
MaxRetries == 1
RegistryRequests == {"r1", "r2"}
RequestWallet(r) == "wSell"
SubmitResultTx == 2
\* the hash wallet.submitTx returns for a request's attempt
NewTxHash(r, attempt) == 40 + 2 * attempt + (IF r = "r1" THEN 0 ELSE 1)

\* the wallets of the model hold at most MaxUtxos UTXOs
MaxUtxos == 1
\* messages of the errors an operation throws; NoError stands for null
NoError == ""
NoUtxosError == "No UTXOs found for the wallet"
OtherError == "operation failed"
\* convertErrorString: the text written to RegistryRequest.error
convertErrorString(error) == error

\* rows whose BlocksWallet is the wallet and whose status is Pending
PendingBlocking(d, w) ==
  {i \in 1..Len(d.tx) : d.tx[i].status = "Pending" /\ d.tx[i].blocksWallet = w}

\* the wallet locker's check: locked_at IS NULL AND NOT EXISTS(pending tx)
WalletFree(d, w) == ~d.lockedAt[w] /\ PendingBlocking(d, w) = {}

\* BlocksWallet: { connect: { id } } on plain rows, no relation cardinality
ConnectBlocksWalletShared(rows, txHash, w) ==
  Append(rows, TxRow(txHash, "Pending", w))

\* CurrentTransaction: { create: { txHash, status: Pending, BlocksWallet:
\* { connect } } }: HotWallet.PendingTransaction is a single optional row, so
\* the connect takes the wallet over from the row that held it
ConnectBlocksWallet(rows, txHash, w) ==
  Append([i \in 1..Len(rows) |->
            IF rows[i].blocksWallet = w
            THEN [rows[i] EXCEPT !.blocksWallet = NoWallet] ELSE rows[i]],
         TxRow(txHash, "Pending", w))

\* the database while the result submission of the payment is in flight:
\* the payment's current transaction is Pending and blocks the selling wallet
DbSubmitResultInitiated ==
  [tx |-> <<TxRow(1, "Confirmed", NoWallet), TxRow(1, "Confirmed", NoWallet),
            TxRow(SubmitResultTx, "Pending", "wSell")>>,
   pay |-> [PaymentRequest("SubmitResultInitiated", 3, "FundsLocked",
                           Some(BuyerBase)) EXCEPT !.hist = {1}],
   pur |-> PurchaseRequest("WaitingForExternalAction", 2, "FundsLocked"),
   lockedAt |-> [w \in Wallets |-> w = "wSell"]]

RegInit ==
  [state |-> [r \in RegistryRequests |-> "RegistrationRequested"],
   cur   |-> [r \in RegistryRequests |-> 0],
   op    |-> [r \in RegistryRequests |-> "none"],
   tries |-> [r \in RegistryRequests |-> 0],
   submitted |-> [r \in RegistryRequests |-> 0],
   sawUtxos |-> [r \in RegistryRequests |-> FALSE],
   thrown |-> [r \in RegistryRequests |-> NoError],
   error |-> [r \in RegistryRequests |-> NoError],
   agentIdentifier |-> [r \in RegistryRequests |-> ""],
   batch |-> [c \in Coordinators |-> {}]]

WalletIdle == reg = RegInit
WalletInit == reg = RegInit /\ db \in {DbFundsLocked, DbSubmitResultInitiated}

\* registerAgentV1, lines 142-154: the mutex of the process, then
\* lockAndQueryRegistryRequests locks the wallets of the requests it returns
LockAndQueryRegistryRequests(c, batch) ==
  /\ reg.batch[c] = {}
  /\ batch # {}
  /\ \A r \in batch : /\ reg.state[r] = "RegistrationRequested"
                      /\ reg.op[r] = "none"
                      /\ WalletFree(db, RequestWallet(r))
  /\ \A r1 \in batch, r2 \in batch : RequestWallet(r1) = RequestWallet(r2) => r1 = r2
  /\ db' = [db EXCEPT !.lockedAt =
              [w \in Wallets |-> IF \E r \in batch : RequestWallet(r) = w
                                 THEN TRUE ELSE @[w]]]
  /\ reg' = [reg EXCEPT !.batch[c] = batch,
                        !.op = [r \in RegistryRequests |->
                                  IF r \in batch THEN "locked" ELSE @[r]]]
  /\ UNCHANGED notWallet

\* line 187: the wallet has UTXOs
UtxosFoundAlways(utxos) == TRUE

UtxosFound(utxos) == utxos # 0

\* lines 181-249 of the operation, the wallet holding utxos UTXOs: it throws
\* for an empty wallet or at a later step before the row is written, or the
\* request becomes RegistrationInitiated with a Pending current transaction
\* that blocks the wallet.  reg.thrown is the error of the last attempt,
\* reg.sawUtxos whether some attempt found a UTXO.
\* the request is persisted without leaving RegistrationRequested
PersistedStateUnchanged(state) == state

\* line 236: state: RegistrationState.RegistrationInitiated
PersistedState(state) == "RegistrationInitiated"

\* lines 190-198: the policy id of the registry script and the asset name
\* generated from the first UTXO of the wallet
policyId == "policy."
generateAssetName(r) == "asset." \o r

CreatePendingTransaction(c, r, utxos, throws) ==
  /\ r \in reg.batch[c]
  /\ reg.op[r] = "locked"
  /\ IF ~UtxosFound(utxos)
     THEN /\ reg' = [reg EXCEPT !.op[r] = "thrown", !.thrown[r] = NoUtxosError,
                                !.sawUtxos[r] = @ \/ utxos > 0]
          /\ UNCHANGED db
     ELSE IF throws
     THEN /\ reg' = [reg EXCEPT !.op[r] = "thrown", !.thrown[r] = OtherError,
                                !.sawUtxos[r] = @ \/ utxos > 0]
          /\ UNCHANGED db
     ELSE /\ db' = [db EXCEPT !.tx = ConnectBlocksWallet(@, NoTx, RequestWallet(r))]
          /\ reg' = [reg EXCEPT !.state[r] = PersistedState(@),
                                !.cur[r] = Len(db.tx) + 1,
                                !.op[r] = "created",
                                !.sawUtxos[r] = @ \/ utxos > 0]
  /\ UNCHANGED notWallet

\* lines 251-262: wallet.submitTx throws, or it returns the new hash and the
\* write of that hash throws, or both succeed.  reg.submitted counts the
\* calls of wallet.submitTx that returned a hash.
SubmitOutcomes == {"submitThrows", "writeThrows", "written"}

SubmitTx(c, r, outcome) ==
  /\ r \in reg.batch[c]
  /\ reg.op[r] = "created"
  /\ IF outcome = "submitThrows"
     THEN /\ reg' = [reg EXCEPT !.op[r] = "thrown", !.thrown[r] = OtherError]
          /\ UNCHANGED db
     ELSE IF outcome = "writeThrows"
     THEN /\ reg' = [reg EXCEPT !.op[r] = "thrown", !.thrown[r] = OtherError,
                                !.submitted[r] = @ + 1]
          /\ UNCHANGED db
     ELSE /\ db' = [db EXCEPT !.tx[reg.cur[r]].txHash = NewTxHash(r, reg.tries[r])]
          /\ reg' = [reg EXCEPT !.op[r] = "ok", !.submitted[r] = @ + 1,
                                !.agentIdentifier[r] = policyId \o generateAssetName(r)]
  /\ UNCHANGED notWallet

\* lines 174-179: advancedRetryAll runs a thrown operation again
RetryOperation(c, r) ==
  /\ r \in reg.batch[c]
  /\ reg.op[r] = "thrown"
  /\ reg.tries[r] < MaxRetries
  /\ \A q \in reg.batch[c] : reg.op[q] # "marked"
  /\ reg' = [reg EXCEPT !.op[r] = "locked", !.tries[r] = @ + 1]
  /\ UNCHANGED <<db, notWallet>>

\* lines 273-295: the loop over the settled results
MarkRegistrationFailed(c, r) ==
  /\ r \in reg.batch[c]
  /\ reg.op[r] = "thrown"
  /\ \A q \in reg.batch[c] : reg.op[q] \in {"ok", "thrown", "marked"}
  /\ reg' = [reg EXCEPT !.state[r] = "RegistrationFailed", !.op[r] = "marked",
                        !.error[r] = convertErrorString(reg.thrown[r])]
  /\ db' = [db EXCEPT !.lockedAt[RequestWallet(r)] = FALSE]
  /\ UNCHANGED notWallet

\* lines 296-302: the call returns and releases the mutex
ReleaseMutex(c) ==
  /\ reg.batch[c] # {}
  /\ \A q \in reg.batch[c] : reg.op[q] \in {"ok", "marked"}
  /\ reg' = [reg EXCEPT !.batch[c] = {}]
  /\ UNCHANGED <<db, notWallet>>

\* the sync loop sees the result submission on chain
SyncConfirmsSubmitResult ==
  /\ db.pay.cur # 0
  /\ db.tx[db.pay.cur].status = "Pending"
  /\ db.tx[db.pay.cur].txHash = SubmitResultTx
  /\ db' = handlePaymentTransactionCardanoV1(db, SubmitResultTx, "ResultSubmitted",
             "b1", "d3f1", db.pay.action, <<0, 0>>)
  /\ UNCHANGED <<reg, notWallet>>

\* the sync loop finds the result submission rolled back
SyncRollsBackSubmitResult ==
  /\ \E i \in RowsOf(db, {SubmitResultTx}) : db.tx[i].status # "RolledBack"
  /\ db' = updateRolledBackTransaction(db, <<SubmitResultTx>>)
  /\ UNCHANGED <<reg, notWallet>>

\* updateRolledBackTransaction is handed the hash of the mint transaction a
\* returned registerAgentV1 submitted for the request
RollBackMint(r) ==
  /\ reg.op[r] = "ok"
  /\ \A c \in Coordinators : r \notin reg.batch[c]
  /\ db.tx[reg.cur[r]].status = "Pending"
  /\ db' = updateRolledBackTransaction(db, <<db.tx[reg.cur[r]].txHash>>)
  /\ UNCHANGED <<reg, notWallet>>

(***************************************************************************)
(* deleteAgentRegistration (DELETE /api/v1/registry), called by several     *)
(* callers at once on a table of RegistryRequest rows.  A call looks the    *)
(* row up and checks its state, then deletes it; the two database calls are *)
(* separate steps.                                                          *)
(***************************************************************************)
MaxDeleteCalls == 3
Callers == {"a1", "a2"}
RegistryIds == RegistryRequests \cup {"r0"}
Absent == "absent"
RegistrationStates ==
  {"RegistrationRequested", "RegistrationInitiated", "RegistrationConfirmed",
   "RegistrationFailed", "DeregistrationRequested", "DeregistrationInitiated",
   "DeregistrationConfirmed"}

validStatesForDeletionWithConfirmed ==
  {"RegistrationFailed", "DeregistrationConfirmed", "RegistrationConfirmed"}

validStatesForDeletion == {"RegistrationFailed", "DeregistrationConfirmed"}

NoCall == [pc |-> "idle", id |-> "r0", status |-> 0]

DeleteIdle ==
  del = [rows |-> [id \in RegistryIds |-> Absent],
         call |-> [a \in Callers |-> NoCall], calls |-> 0, statuses |-> {}]

DeleteInit ==
  \E rows \in [RegistryRequests -> RegistrationStates] :
    del = [rows |-> [id \in RegistryIds |-> IF id \in RegistryRequests
                                             THEN rows[id] ELSE Absent],
           call |-> [a \in Callers |-> NoCall], calls |-> 0, statuses |-> {}]

\* lines 627-677: findUnique, 404 for no row, 400 for a state that is not
\* valid for deletion
FindRegistryRequest(a, id) ==
  /\ del.call[a].pc = "idle"
  /\ del.calls < MaxDeleteCalls
  /\ LET registryRequest == del.rows[id]
         status == IF registryRequest = Absent THEN 404
                   ELSE IF registryRequest \notin validStatesForDeletion THEN 400
                   ELSE 0
     IN del' = [del EXCEPT
                  !.call[a] = [pc |-> IF status = 0 THEN "found" ELSE "done",
                               id |-> id, status |-> status],
                  !.calls = @ + 1,
                  !.statuses = IF status = 0 THEN @ ELSE @ \cup {status}]
  /\ UNCHANGED notDelete

\* lines 679-687: prisma.registryRequest.delete, which throws when the row
\* is gone (the catch at 688 rethrows, status 500)
DeleteRegistryRequest(a) ==
  /\ del.call[a].pc = "found"
  /\ LET id == del.call[a].id
         status == IF del.rows[id] = Absent THEN 500 ELSE 200
     IN del' = [del EXCEPT !.rows[id] = Absent,
                           !.call[a].pc = "done", !.call[a].status = status,
                           !.statuses = @ \cup {status}]
  /\ UNCHANGED notDelete

\* the response is sent
DeleteReturns(a) ==
  /\ del.call[a].pc = "done"
  /\ del' = [del EXCEPT !.call[a] = NoCall]
  /\ UNCHANGED notDelete

(***************************************************************************)
(* updateTransaction on the transactions of a refund request, the result    *)
(* submitted after it and the cancellation of the refund request, in any    *)
(* order and any number of times.                                           *)
(***************************************************************************)
MaxObserved == 3
RefundHashes == {2, 91, 92, 93, 94}

RefundIdle ==
  obs = [last |-> NoTx, count |-> 0, before |-> DbFundsLocked,
         failed |-> <<FALSE, FALSE>>]

RefundInit == DbIdle /\ RefundIdle

ObserveTransaction(h, payFails, purFails) ==
  /\ obs.count < MaxObserved
  /\ ChainTx(h).kind = "Transaction"
  /\ db' = updateTransaction(db, h, payFails, purFails)
  /\ obs' = [last |-> h, count |-> obs.count + 1, before |-> db,
             failed |-> <<payFails, purFails>>]
  /\ UNCHANGED notRefund

(***************************************************************************)
(* extractOnChainTransactionData (cardano-tx-handler.service.ts) as a pure  *)
(* function.  A transaction is [inputs, outputs, redeemers]: the UTXOs are  *)
(* [address, referenceScript, datum] with datum "null" (no inline datum),   *)
(* "other" (a datum that is no V1 contract datum) or "contract";            *)
(* redeemers is None when the witness set has none, or the sequence of the  *)
(* constructor indexes of the redeemers.                                    *)
(***************************************************************************)
smartContractAddress == "addr_script"
ForeignUtxo == [address |-> "addr_other", referenceScript |-> TRUE, datum |-> "contract"]
ScriptInputs ==
  [address : {smartContractAddress}, referenceScript : BOOLEAN,
   datum : {"null", "other", "contract"}]
ScriptOutputs ==
  [address : {smartContractAddress}, referenceScript : BOOLEAN,
   datum : {"null", "contract"}]
UpToTwo(S) == {<<>>} \cup {<<a>> : a \in S} \cup {<<a, b>> : a \in S, b \in S}
RedeemerLists ==
  {None, Some(<<>>), Some(<<1, 1>>)} \cup {Some(<<v>>) : v \in {0, 1, 3, 4, 5}}

\* decodeV1ContractDatum: null (None) for anything but a contract datum
decodeV1ContractDatum(datum) ==
  IF datum = "contract" THEN Some([resultHash |-> "", state |-> "FundsLocked"])
  ELSE None

PossibleInvalidStateNever(redeemerVersion, decodedNewContract) == FALSE

\* lines 585-590
PossibleInvalidState(redeemerVersion, decodedNewContract) ==
  /\ redeemerVersion # 0
  /\ redeemerVersion # 3
  /\ redeemerVersion # 4
  /\ decodedNewContract = None

Invalid(error) == [type |-> "Invalid", error |-> error]

extractOnChainTransactionData(tx, paymentContractAddress) ==
  LET valueInputs == SelectSeq(tx.inputs, LAMBDA x : x.address = paymentContractAddress)
      valueOutputs == SelectSeq(tx.outputs, LAMBDA x : x.address = paymentContractAddress)
      redeemers == tx.redeemers
  IN
  IF \E i \in 1..Len(valueOutputs) : valueOutputs[i].referenceScript
  THEN Invalid("Smart Contract value output has reference script set")
  ELSE IF Len(valueInputs) = 0 /\ redeemers = None
  THEN [type |-> "Initial", error |-> ""]
  ELSE IF Len(valueInputs) # 1
  THEN Invalid("Smart Contract value input invalid length (bigger than 0) ")
  ELSE IF redeemers = None
  THEN Invalid("Smart Contract redeemer invalid")
  ELSE IF Len(redeemers[1]) # 1
  THEN Invalid("Smart Contract redeemer invalid length")
  ELSE IF valueInputs[1].referenceScript
  THEN Invalid("Smart Contract value input has reference script set")
  ELSE IF valueInputs[1].datum = "null"
  THEN Invalid("Smart Contract value input has no datum")
  ELSE IF decodeV1ContractDatum(valueInputs[1].datum) = None
  THEN Invalid("Smart Contract value input has no datum")
  ELSE IF Len(valueOutputs) > 1
  THEN Invalid("Smart Contract value output invalid length (bigger than 0) ")
  ELSE
    LET outputDatum == IF Len(valueOutputs) = 1 THEN valueOutputs[1].datum ELSE "null"
        decodedNewContract == decodeV1ContractDatum(outputDatum)
        redeemerVersion == redeemers[1][1]
    IN IF PossibleInvalidState(redeemerVersion, decodedNewContract)
       THEN Invalid("Possible invalid state in smart contract detected")
       ELSE [type |-> "Transaction", error |-> ""]

NotExtracted == [type |-> "unset", error |-> ""]

ExtractIdle ==
  ext = [tx |-> [inputs |-> <<>>, outputs |-> <<>>, redeemers |-> None],
         result |-> NotExtracted]

ExtractInit ==
  \E inputs \in UpToTwo(ScriptInputs \cup {ForeignUtxo}),
     outputs \in UpToTwo(ScriptOutputs \cup {ForeignUtxo}),
     redeemers \in RedeemerLists :
    ext = [tx |-> [inputs |-> inputs, outputs |-> outputs, redeemers |-> redeemers],
           result |-> NotExtracted]

CallExtractOnChainTransactionData ==
  /\ ext.result = NotExtracted
  /\ ext' = [ext EXCEPT !.result =
               extractOnChainTransactionData(ext.tx, smartContractAddress)]
  /\ UNCHANGED notExtract

(***************************************************************************)
(* The module-level mutex of checkLatestTransactions and of registerAgentV1 *)
(* in one process.  The scheduler invokes a job again while an earlier      *)
(* invocation may still run; an invocation that holds the mutex runs its    *)
(* cycle, every step of which reads or writes rows or submits and may       *)
(* throw.                                                                   *)
(***************************************************************************)
MaxCycles == 3
MaxAccesses == 1
Jobs == {"checkLatestTransactions", "registerAgentV1"}
Invocations == {"i1", "i2"}

\* tryAcquire(mutex).acquire() of async-mutex: resolves when the mutex is
\* free and rejects with E_ALREADY_LOCKED when it is held
tryAcquire(locked) == ~locked

\* the mutex is released only when the cycle did not throw
ReleasesOnSuccess(outcome) == outcome = "running"

\* finally { release(); }
ReleasesOn(outcome) == outcome \in {"running", "failed"}

MutexIdle ==
  mx = [locked |-> [j \in Jobs |-> FALSE],
        pc |-> [j \in Jobs |-> [i \in Invocations |-> "idle"]],
        accesses |-> [j \in Jobs |-> [i \in Invocations |-> 0]],
        cycles |-> [j \in Jobs |-> 0],
        failed |-> [j \in Jobs |-> FALSE]]

\* release = await tryAcquire(mutex).acquire(), or the catch that returns
InvokeJob(j, i) ==
  /\ mx.pc[j][i] = "idle"
  /\ mx.cycles[j] < MaxCycles
  /\ mx' = IF tryAcquire(mx.locked[j])
           THEN [mx EXCEPT !.locked[j] = TRUE, !.pc[j][i] = "running",
                           !.accesses[j][i] = 0, !.cycles[j] = @ + 1]
           ELSE [mx EXCEPT !.pc[j][i] = "skipped", !.accesses[j][i] = 0,
                           !.cycles[j] = @ + 1]
  /\ UNCHANGED notMutex

\* one step of the cycle inside the try block
CycleStep(j, i, throws) ==
  /\ mx.pc[j][i] = "running"
  /\ mx.accesses[j][i] < MaxAccesses
  /\ mx' = [mx EXCEPT !.accesses[j][i] = @ + 1,
                      !.pc[j][i] = IF throws THEN "failed" ELSE @,
                      !.failed[j] = @ \/ throws]
  /\ UNCHANGED notMutex

\* the end of the try block, or its catch, and the finally block
EndOfCycle(j, i) ==
  /\ mx.pc[j][i] \in {"running", "failed"}
  /\ mx' = [mx EXCEPT !.locked[j] = IF ReleasesOn(mx.pc[j][i]) THEN FALSE ELSE @,
                      !.pc[j][i] = "idle"]
  /\ UNCHANGED notMutex

\* logger.info('Mutex timeout when locking'); return
SkippedReturns(j, i) ==
  /\ mx.pc[j][i] = "skipped"
  /\ mx' = [mx EXCEPT !.pc[j][i] = "idle"]
  /\ UNCHANGED notMutex

(***************************************************************************)
(* sortAndLimitUtxos (utils/utxo/index.ts).  A UTXO is [id, amount], amount *)
(* a sequence of [unit, quantity]; the quantities are the numbers their     *)
(* decimal strings parse to.                                                *)
(***************************************************************************)
MaxWalletUtxos == 12
\* SERVICE_CONSTANTS.TRANSACTION.maxUtxos, MAX_UTXOS_PER_TX of the spec
maxUtxos == 10

\* lines 9-16: the quantity of the first lovelace entry, '0' without one
LovelaceOf(utxo) ==
  LET found == {i \in 1..Len(utxo.amount) : utxo.amount[i].unit \in {"lovelace", ""}}
  IN IF found = {} THEN 0
     ELSE utxo.amount[CHOOSE i \in found : \A j \in found : i <= j].quantity

\* lines 19-21: Array.prototype.sort with (a, b) => b.lovelace - a.lovelace
\* is stable, so an element goes behind the larger ones and behind the equal
\* ones that were in front of it
sortUtxosByLovelaceDesc(utxos) ==
  LET n == Len(utxos)
      place(i) == Cardinality({j \in 1..n :
                     \/ LovelaceOf(utxos[j]) > LovelaceOf(utxos[i])
                     \/ (LovelaceOf(utxos[j]) = LovelaceOf(utxos[i]) /\ j < i)}) + 1
  IN [p \in 1..n |-> utxos[CHOOSE i \in 1..n : place(i) = p]]

\* lines 27-30, called without maxCount
limitUtxos(utxos) ==
  LET limit == maxUtxos
      end == IF limit < Len(utxos) THEN limit ELSE Len(utxos)
  IN SubSeq(utxos, 1, end)

\* the list is cut before it is sorted
limitThenSortUtxos(utxos) ==
  sortUtxosByLovelaceDesc(limitUtxos(utxos))

sortAndLimitUtxos(utxos) ==
  limitUtxos(sortUtxosByLovelaceDesc(utxos))

\* the amounts of a UTXO: without lovelace, and with 1, 2 or 3 lovelace
UtxoAmounts ==
  <<<<[unit |-> "tok", quantity |-> 5]>>,
    <<[unit |-> "lovelace", quantity |-> 1]>>,
    <<[unit |-> "tok", quantity |-> 9], [unit |-> "", quantity |-> 2]>>,
    <<[unit |-> "lovelace", quantity |-> 3]>>>>

\* the wallets: every list of up to three UTXOs, and lists around maxUtxos
\* whose amounts repeat in several orders
WalletUtxos ==
  {[i \in 1..n |-> [id |-> i, amount |-> UtxoAmounts[f[i]]]] :
     n \in 0..3, f \in [1..3 -> 1..4]}
  \cup {[i \in 1..n |-> [id |-> i, amount |-> UtxoAmounts[((i * k + c) % 4) + 1]]] :
          n \in (maxUtxos - 1)..MaxWalletUtxos, k \in 1..3, c \in 0..3}

SelectIdle == sel = [utxos |-> <<>>, result |-> <<>>, called |-> FALSE]

SelectInit ==
  \E u \in WalletUtxos : sel = [utxos |-> u, result |-> <<>>, called |-> FALSE]

CallSortAndLimitUtxos ==
  /\ ~sel.called
  /\ sel' = [sel EXCEPT !.result = sortAndLimitUtxos(sel.utxos), !.called = TRUE]
  /\ UNCHANGED notSelect

(***************************************************************************)
(* calculateValueChange and the withdrawn amounts updateTransaction hands   *)
(* to the handlers.  A UTXO of a transaction is [address, amount].          *)
(***************************************************************************)
\* resolvePaymentKeyHash of @meshsdk/core: the payment key of an address;
\* aS and aS2 are two addresses of the seller's key.  For an address without
\* a payment key (the script address) the package returns no key of a
\* party or throws, wd.keylessThrows says which.
HasPaymentKey(address) == address \in {"aS", "aS2", "aB"}

resolvePaymentKeyHash(address) ==
  IF address \in {"aS", "aS2"} THEN "vS"
  ELSE IF address = "aB" THEN "vB"
  ELSE "none"

RECURSIVE Flatten(_)
Flatten(amounts) ==
  IF amounts = <<>> THEN <<>> ELSE Head(amounts) \o Flatten(Tail(amounts))

\* the forEach loops of lines 273-304: find the unit, push it or add to it
RECURSIVE AddAmounts(_, _, _)
AddAmounts(withdrawnAmount, amounts, sign) ==
  IF amounts = <<>> THEN withdrawnAmount
  ELSE LET amount == Head(amounts)
           found == {i \in 1..Len(withdrawnAmount) :
                       withdrawnAmount[i].unit = amount.unit}
           next == IF found = {}
                   THEN Append(withdrawnAmount,
                               [unit |-> amount.unit,
                                quantity |-> sign * amount.quantity])
                   ELSE LET i == CHOOSE i \in found : \A j \in found : i <= j
                        IN [withdrawnAmount EXCEPT
                              ![i].quantity = @ + sign * amount.quantity]
       IN AddAmounts(next, Tail(amounts), sign)

AmountsOf(utxos, vkey) ==
  LET mine == SelectSeq(utxos, LAMBDA x : resolvePaymentKeyHash(x.address) = vkey)
  IN Flatten([i \in 1..Len(mine) |-> mine[i].amount])

\* the inputs of the party are not subtracted
calculateValueChangeOutputsOnly(inputs, outputs, vkey) ==
  AddAmounts(<<>>, AmountsOf(outputs, vkey), 1)

calculateValueChange(inputs, outputs, vkey) ==
  AddAmounts(AddAmounts(<<>>, AmountsOf(outputs, vkey), 1),
             AmountsOf(inputs, vkey), -1)

TxUtxos ==
  {[address |-> "aS", amount |-> <<[unit |-> "lovelace", quantity |-> 5]>>],
   [address |-> "aS2", amount |-> <<[unit |-> "lovelace", quantity |-> 2],
                                    [unit |-> "tok", quantity |-> 1]>>],
   [address |-> "aB", amount |-> <<[unit |-> "lovelace", quantity |-> 3]>>],
   [address |-> "addr_script", amount |-> <<[unit |-> "lovelace", quantity |-> 10],
                                            [unit |-> "tok", quantity |-> 1]>>]}

TxUtxoLists == {<<>>} \cup {<<u>> : u \in TxUtxos} \cup (TxUtxos \X TxUtxos)

WithdrawIdle ==
  wd = [inputs |-> <<>>, outputs |-> <<>>, redeemerVersion |-> 0,
        decodedNewContract |-> None, valueMatches |-> TRUE, keylessThrows |-> FALSE,
        newState |-> "unset", forSeller |-> <<>>, forBuyer |-> <<>>]

WithdrawInit ==
  \E i \in TxUtxoLists, o \in TxUtxoLists, r \in 0..MaxRedeemer, v \in BOOLEAN,
     d \in {None, Some([resultHash |-> "ff00", state |-> "Disputed"])},
     t \in BOOLEAN :
    wd = [inputs |-> i, outputs |-> o, redeemerVersion |-> r,
          decodedNewContract |-> d, valueMatches |-> v, keylessThrows |-> t,
          newState |-> "unset", forSeller |-> <<>>, forBuyer |-> <<>>]

\* tx/index.ts 131-146: createMany of the withdrawn amounts
CreateMany(rows, withdrawn) ==
  rows \o [i \in 1..Len(withdrawn) |->
            [unit |-> withdrawn[i].unit, amount |-> withdrawn[i].quantity]]

\* updateTransaction, lines 1187-1266, for a transaction whose input matches
\* the request
UpdateTransactionWithdrawn ==
  /\ wd.newState = "unset"
  /\ LET newState == redeemerToOnChainState(wd.redeemerVersion,
                                            wd.decodedNewContract, wd.valueMatches)
         sellerWithdrawn ==
           IF newState = "DisputedWithdrawn"
           THEN calculateValueChange(wd.inputs, wd.outputs, SellerBase.walletVkey)
           ELSE <<>>
         buyerWithdrawn ==
           IF newState = "DisputedWithdrawn"
           THEN calculateValueChange(wd.inputs, wd.outputs, BuyerBase.walletVkey)
           ELSE <<>>
         throws ==
           /\ newState = "DisputedWithdrawn"
           /\ wd.keylessThrows
           /\ \E k \in 1..Len(wd.inputs \o wd.outputs) :
                ~HasPaymentKey((wd.inputs \o wd.outputs)[k].address)
     IN IF newState = NULL
        THEN wd' = [wd EXCEPT !.newState = "none"]
        ELSE IF throws
        THEN wd' = [wd EXCEPT !.newState = "threw"]
        ELSE wd' = [wd EXCEPT !.newState = newState,
                              !.forSeller = CreateMany(@, sellerWithdrawn),
                              !.forBuyer = CreateMany(@, buyerWithdrawn)]
  /\ UNCHANGED notWithdraw

(***************************************************************************)
(* One process running checkLatestTransactions again and again: the mutex,  *)
(* the syncInProgress flags the cycle sets, the work on the sources, the    *)
(* inner finally block with unlockPaymentSources and the outer one with     *)
(* release().                                                               *)
(***************************************************************************)
MaxSyncCycles == 3
CycleOutcomes == {"ok", "noNewTransactions", "failed"}

NoCycle == [ids |-> {}, outcome |-> "none", unlockFailed |-> FALSE]

CycleLockIdle ==
  sc = [pc |-> "idle", mutex |-> FALSE,
        syncInProgress |-> [s \in Sources |-> FALSE],
        ids |-> {}, outcome |-> "none", cycles |-> 0, last |-> NoCycle]

\* the flags are cleared only when no source failed
UnlocksAfterSuccess(outcome) == outcome # "failed"

\* lines 149-151: finally { await unlockPaymentSources(...) }
UnlocksAfter(outcome) == outcome \in CycleOutcomes

\* lines 28-38: tryAcquire, then queryAndLockPaymentSourcesForSync, which
\* throws, returns null when nothing is selectable, or flags what it selected;
\* stale are the flagged sources whose lock timed out
AcquireAndLock(stale, throws) ==
  /\ sc.pc = "idle"
  /\ sc.cycles < MaxSyncCycles
  /\ LET paymentContracts ==
           {s \in Sources : ~sc.syncInProgress[s] \/ s \in stale}
     IN IF throws \/ paymentContracts = {}
        THEN sc' = [sc EXCEPT !.pc = "releasing", !.mutex = TRUE, !.ids = {},
                              !.outcome = "none", !.cycles = @ + 1,
                              !.last = NoCycle]
        ELSE sc' = [sc EXCEPT !.pc = "processing", !.mutex = TRUE,
                              !.ids = paymentContracts, !.outcome = "none",
                              !.cycles = @ + 1, !.last = NoCycle,
                              !.syncInProgress =
                                 [s \in Sources |->
                                    IF s \in paymentContracts THEN TRUE ELSE @[s]]]
  /\ UNCHANGED notCycle

\* lines 40-148: Promise.allSettled over the sources and the catch block
ProcessSources(outcome) ==
  /\ sc.pc = "processing"
  /\ sc' = [sc EXCEPT !.pc = IF UnlocksAfter(outcome) THEN "unlocking"
                             ELSE "releasing",
                      !.outcome = outcome]
  /\ UNCHANGED notCycle

\* unlockPaymentSources, lines 162-173: the updateMany clears the flags of the
\* ids, or throws and the error is logged
UnlockPaymentSources(throws) ==
  /\ sc.pc = "unlocking"
  /\ sc' = [sc EXCEPT !.pc = "releasing",
                      !.last = [ids |-> sc.ids, outcome |-> sc.outcome,
                                unlockFailed |-> throws],
                      !.syncInProgress =
                         [s \in Sources |->
                            IF ~throws /\ s \in sc.ids THEN FALSE ELSE @[s]]]
  /\ UNCHANGED notCycle

\* lines 155-157: finally { release(); }
ReleaseCycleMutex ==
  /\ sc.pc = "releasing"
  /\ sc' = [sc EXCEPT !.pc = "idle", !.mutex = FALSE,
                      !.last = IF sc.outcome = "none" \/ sc.last # NoCycle THEN @
                               ELSE [ids |-> sc.ids, outcome |-> sc.outcome,
                                     unlockFailed |-> FALSE]]
  /\ UNCHANGED notCycle

(***************************************************************************)
(* updateTransaction beside the API: the requests are read (lines           *)
(* 1092-1147), then each handler opens its serializable transaction, reads  *)
(* its request again and writes.  Between the two an API call may queue a   *)
(* Requested action on a request that waits for an external action.         *)
(* st.tableInput is the current action given to the table, st.actionInTx    *)
(* the request's action inside the handler's transaction.                   *)
(***************************************************************************)
StaleHashes == {2, 21, 80, 93}
RequestedActions ==
  [pay |-> {"SubmitResultRequested", "AuthorizeRefundRequested"},
   pur |-> {"SetRefundRequestedRequested"}]

StaleIdle ==
  st = [pc |-> "idle", hash |-> NoTx, payAction |-> "None", purAction |-> "None",
        tableInput |-> [pay |-> "None", pur |-> "None"],
        actionInTx |-> [pay |-> "None", pur |-> "None"]]

\* the two findUnique of updateTransaction
ReadRequests(h) ==
  /\ st.pc = "idle"
  /\ ChainTx(h).kind = "Transaction"
  /\ st' = [st EXCEPT !.pc = "read", !.hash = h,
                      !.payAction = db.pay.action, !.purAction = db.pur.action]
  /\ UNCHANGED <<db, notStale>>

\* submit_result, authorize_refund, request_refund of the API
QueueRequestedAction(side, action) ==
  /\ db[side].action = "WaitingForExternalAction"
  /\ db' = [db EXCEPT ![side].action = action]
  /\ UNCHANGED <<st, notStale>>

\* lines 1230-1266 and the handlers: currentAction is the action of the
\* request read by updateTransaction
HandleInTransactions ==
  /\ st.pc = "read"
  /\ LET tx == ChainTx(st.hash)
         newState == redeemerToOnChainState(tx.redeemerVersion, tx.newContract,
                                            tx.valueMatches)
         resultHash == IF tx.newContract # None THEN tx.newContract[1].resultHash
                       ELSE ""
         afterPay == handlePaymentTransactionCardanoV1(
                       db, st.hash, newState, tx.bid, resultHash, st.payAction,
                       <<0, 0>>)
     IN /\ newState # NULL
        /\ db' = handlePurchasingTransactionCardanoV1(
                   afterPay, st.hash, newState, tx.bid, resultHash, st.purAction,
                   <<0, 0>>)
        /\ st' = [st EXCEPT !.pc = "written",
                            !.tableInput = [pay |-> st.payAction, pur |-> st.purAction],
                            !.actionInTx = [pay |-> db.pay.action,
                                            pur |-> db.pur.action]]
  /\ UNCHANGED notStale

(***************************************************************************)
(* BlockchainStateMonitorService.  startMonitoring sets isMonitoring, then  *)
(* awaits the initial cycle, then creates the interval timer; the event     *)
(* loop runs stopMonitoring and other startMonitoring calls during the      *)
(* await.  Every timer gets a number of its own; NoTimer is the null        *)
(* handle.  mon.timers is the set of timers the runtime holds.              *)
(***************************************************************************)
MaxStarts == 3
MaxTicks == 2
NoTimer == 0

MonitorIdle ==
  mon = [isMonitoring |-> FALSE, monitoringInterval |-> NoTimer, timers |-> {},
         awaiting |-> 0, starts |-> 0, ticks |-> 0, stopped |-> FALSE]

\* lines 12-26: up to the await of the initial cycle
StartMonitoring ==
  /\ mon.starts < MaxStarts
  /\ mon' = IF mon.isMonitoring
              THEN [mon EXCEPT !.starts = @ + 1]
              ELSE [mon EXCEPT !.starts = @ + 1, !.isMonitoring = TRUE,
                               !.awaiting = @ + 1, !.stopped = FALSE]
  /\ UNCHANGED <<db, notMonitor>>

\* lines 28-32: the continuation after the initial cycle
SetInterval ==
  /\ mon.awaiting > 0
  /\ LET timer == mon.starts * (MaxStarts + 1) + mon.awaiting
     IN mon' = [mon EXCEPT !.awaiting = @ - 1, !.monitoringInterval = timer,
                           !.timers = @ \cup {timer}]
  /\ UNCHANGED <<db, notMonitor>>

\* lines 35-50
StopMonitoring ==
  /\ mon' = IF ~mon.isMonitoring
              THEN [mon EXCEPT !.stopped = TRUE]
              ELSE [mon EXCEPT !.timers = @ \ {mon.monitoringInterval},
                               !.monitoringInterval = NoTimer,
                               !.isMonitoring = FALSE, !.stopped = TRUE]
  /\ UNCHANGED <<db, notMonitor>>

\* the callback of setInterval, lines 28-30
TimerFires ==
  /\ mon.timers # {}
  /\ mon.ticks < MaxTicks
  /\ mon' = [mon EXCEPT !.ticks = @ + 1]
  /\ UNCHANGED <<db, notMonitor>>

(***************************************************************************)
(* One call of getSmartContractInteractionTxHistoryList, an iteration of    *)
(* its loop at a time.  hw.visited lists the hashes given to txsUtxos.      *)
(***************************************************************************)
HistoryStarts == {1, 2, 3, Deep, 30, 71, 92, 100, 101}
HistoryLasts == {1, 2, 40, 50, 70, 100}
HistoryLevels == {1, 2, 3, MAX_DEFAULT_SMART_CONTRACT_HISTORY_LEVELS}

HistoryCall(txHash, lastTxHash, maxLevels) ==
  [pc |-> "loop", txHash |-> txHash, lastTxHash |-> lastTxHash,
   maxLevels |-> maxLevels, remainingLevels |-> maxLevels,
   w |-> [hashToCheck |-> txHash, txHashes |-> <<>>, returned |-> FALSE,
          result |-> <<>>],
   visited |-> <<>>, result |-> <<>>]

HistoryIdle == hw = HistoryCall(NoTx, NoTx, 0)

HistoryInit ==
  \E txHash \in HistoryStarts, lastTxHash \in HistoryLasts,
     maxLevels \in HistoryLevels :
    hw = HistoryCall(txHash, lastTxHash, maxLevels)

\* lines 228-251: one iteration
HistoryLookup ==
  /\ hw.pc = "loop"
  /\ ~hw.w.returned
  /\ hw.remainingLevels > 0
  /\ LET after == HistoryWalkStep(hw.w, hw.lastTxHash)
     IN hw' = [hw EXCEPT !.w = after,
                         !.visited = Append(@, hw.w.hashToCheck),
                         !.remainingLevels = IF after.returned THEN @ ELSE @ - 1]
  /\ UNCHANGED <<db, notHistory>>

\* lines 240, 244, 247 and 252
HistoryReturn ==
  /\ hw.pc = "loop"
  /\ hw.w.returned \/ hw.remainingLevels = 0
  /\ hw' = [hw EXCEPT !.pc = "returned",
                      !.result = IF hw.w.returned THEN hw.w.result
                                 ELSE Dedupe(hw.w.txHashes)]
  /\ UNCHANGED <<db, notHistory>>

OthersIdle(own) ==
  /\ IF "rd" \in own THEN TRUE ELSE RdIdle
  /\ IF "lock" \in own THEN TRUE ELSE LockIdle
  /\ IF "db" \in own THEN TRUE ELSE DbIdle
  /\ IF "mirror" \in own THEN TRUE ELSE MirrorIdle
  /\ IF "initial" \in own THEN TRUE ELSE InitialIdle
  /\ IF "sync" \in own THEN TRUE ELSE SyncIdle
  /\ IF "wallet" \in own THEN TRUE ELSE WalletIdle
  /\ IF "amounts" \in own THEN TRUE ELSE AmountsIdle
  /\ IF "history" \in own THEN TRUE ELSE HistoryIdle
  /\ IF "monitor" \in own THEN TRUE ELSE MonitorIdle
  /\ IF "stale" \in own THEN TRUE ELSE StaleIdle
  /\ IF "cycle" \in own THEN TRUE ELSE CycleLockIdle
  /\ IF "withdraw" \in own THEN TRUE ELSE WithdrawIdle
  /\ IF "select" \in own THEN TRUE ELSE SelectIdle
  /\ IF "mutex" \in own THEN TRUE ELSE MutexIdle
  /\ IF "extract" \in own THEN TRUE ELSE ExtractIdle
  /\ IF "refund" \in own THEN TRUE ELSE RefundIdle
  /\ IF "delete" \in own THEN TRUE ELSE DeleteIdle

InitRedeemer == RdInit /\ OthersIdle({"rd"})
NextRedeemer == CallRedeemerToOnChainState
SpecRedeemer == InitRedeemer /\ [][NextRedeemer]_vars

InitLock == LockInit /\ OthersIdle({"lock"})
NextLock ==
  \/ \E c \in Coordinators : queryAndLockPaymentSourcesForSync(c)
  \/ \E c \in Coordinators, s \in Sources : SyncWritesCursor(c, s)
  \/ \E c \in Coordinators : unlockPaymentSources(c)
  \/ Tick
SpecLock == InitLock /\ [][NextLock]_vars

InitMirror == MirrorInit /\ OthersIdle({"mirror", "db"})
NextMirror ==
  \E h \in MirrorHashes, payFails \in BOOLEAN, purFails \in BOOLEAN :
    UpdateTransaction(h, payFails, purFails)
SpecMirror == InitMirror /\ [][NextMirror]_vars

InitSync == SyncInit /\ OthersIdle({"sync", "db"})
NextSync ==
  \/ \E h \in SyncHashes, t \in BlockTimes : AppendTx(h, t)
  \/ \E keep \in 0..Len(chain) : Rollback(keep)
  \/ \E failed \in 0..Len(chain),
        tipConfirmations \in 0..BLOCK_CONFIRMATIONS_THRESHOLD :
       StartCycle(failed, tipConfirmations)
  \/ \E applyThrows \in BOOLEAN, cursorWriteThrows \in BOOLEAN :
       ProcessTx(applyThrows, cursorWriteThrows)
  \/ EndCycle
SpecSync == InitSync /\ [][NextSync]_vars

InitWallet == WalletInit /\ OthersIdle({"wallet", "db"})
NextWallet ==
  \/ \E c \in Coordinators, batch \in SUBSET RegistryRequests :
       LockAndQueryRegistryRequests(c, batch)
  \/ \E c \in Coordinators, r \in RegistryRequests, utxos \in 0..MaxUtxos,
        throws \in BOOLEAN :
       CreatePendingTransaction(c, r, utxos, throws)
  \/ \E c \in Coordinators, r \in RegistryRequests, outcome \in SubmitOutcomes :
       SubmitTx(c, r, outcome)
  \/ \E c \in Coordinators, r \in RegistryRequests : RetryOperation(c, r)
  \/ \E c \in Coordinators, r \in RegistryRequests : MarkRegistrationFailed(c, r)
  \/ \E c \in Coordinators : ReleaseMutex(c)
  \/ SyncConfirmsSubmitResult
  \/ SyncRollsBackSubmitResult
  \/ \E r \in RegistryRequests : RollBackMint(r)
SpecWallet == InitWallet /\ [][NextWallet]_vars

InitAmounts == AmountsInit /\ OthersIdle({"amounts"})
NextAmounts == CallCheckPaymentAmountsMatch
SpecAmounts == InitAmounts /\ [][NextAmounts]_vars

InitDelete == DeleteInit /\ OthersIdle({"delete"})
NextDelete ==
  \/ \E a \in Callers, id \in RegistryIds : FindRegistryRequest(a, id)
  \/ \E a \in Callers : DeleteRegistryRequest(a)
  \/ \E a \in Callers : DeleteReturns(a)
SpecDelete == InitDelete /\ [][NextDelete]_vars

InitRefund == RefundInit /\ OthersIdle({"refund", "db"})
NextRefund ==
  \E h \in RefundHashes, payFails \in BOOLEAN, purFails \in BOOLEAN :
    ObserveTransaction(h, payFails, purFails)
SpecRefund == InitRefund /\ [][NextRefund]_vars

InitExtract == ExtractInit /\ OthersIdle({"extract"})
NextExtract == CallExtractOnChainTransactionData
SpecExtract == InitExtract /\ [][NextExtract]_vars

InitSelect == SelectInit /\ OthersIdle({"select"})
NextSelect == CallSortAndLimitUtxos
SpecSelect == InitSelect /\ [][NextSelect]_vars

InitWithdrawn == WithdrawInit /\ OthersIdle({"withdraw"})
NextWithdrawn == UpdateTransactionWithdrawn
SpecWithdrawn == InitWithdrawn /\ [][NextWithdrawn]_vars

InitCycle == CycleLockIdle /\ OthersIdle({"cycle"})
CycleRuns ==
  \/ \E outcome \in CycleOutcomes : ProcessSources(outcome)
  \/ \E throws \in BOOLEAN : UnlockPaymentSources(throws)
  \/ ReleaseCycleMutex
NextCycle ==
  \/ \E stale \in SUBSET Sources, throws \in BOOLEAN : AcquireAndLock(stale, throws)
  \/ CycleRuns
\* a cycle that has started runs on: every await of it settles
SpecCycle == InitCycle /\ [][NextCycle]_vars /\ WF_vars(CycleRuns)

InitStale == DbIdle /\ StaleIdle /\ OthersIdle({"stale", "db"})
NextStale ==
  \/ \E h \in StaleHashes : ReadRequests(h)
  \/ \E side \in {"pay", "pur"} :
       \E action \in RequestedActions[side] : QueueRequestedAction(side, action)
  \/ HandleInTransactions
SpecStale == InitStale /\ [][NextStale]_vars

InitMonitor == MonitorIdle /\ OthersIdle({"monitor"})
NextMonitor ==
  \/ StartMonitoring
  \/ SetInterval
  \/ StopMonitoring
  \/ TimerFires
SpecMonitor == InitMonitor /\ [][NextMonitor]_vars

InitHistory == HistoryInit /\ OthersIdle({"history"})
HistoryRuns == HistoryLookup \/ HistoryReturn
NextHistory ==
  \/ HistoryLookup
  \/ HistoryReturn
SpecHistory == InitHistory /\ [][NextHistory]_vars /\ WF_vars(HistoryRuns)

InitMutex == MutexIdle /\ OthersIdle({"mutex"})
NextMutex ==
  \/ \E j \in Jobs, i \in Invocations : InvokeJob(j, i)
  \/ \E j \in Jobs, i \in Invocations, throws \in BOOLEAN : CycleStep(j, i, throws)
  \/ \E j \in Jobs, i \in Invocations : EndOfCycle(j, i)
  \/ \E j \in Jobs, i \in Invocations : SkippedReturns(j, i)
SpecMutex == InitMutex /\ [][NextMutex]_vars

\* the sync cycles of SpecSync on the chains over SkipHashes
NextSkip ==
  \/ \E h \in SkipHashes, t \in BlockTimes : AppendTx(h, t)
  \/ \E keep \in 0..Len(chain) : Rollback(keep)
  \/ \E failed \in 0..Len(chain),
        tipConfirmations \in 0..BLOCK_CONFIRMATIONS_THRESHOLD :
       StartCycle(failed, tipConfirmations)
  \/ \E applyThrows \in BOOLEAN, cursorWriteThrows \in BOOLEAN :
       ProcessTx(applyThrows, cursorWriteThrows)
  \/ EndCycle
SpecSkip == InitSync /\ [][NextSkip]_vars

InitInitial == InitialInit /\ OthersIdle({"initial", "db"})
NextInitial == \E input \in InitialInputs : UpdateInitialTransactions(input)
SpecInitial == InitInitial /\ [][NextInitial]_vars

InitRepeat == RepeatInit /\ OthersIdle({"initial", "db"})
NextRepeat ==
  \/ \E input \in InitialInputs : UpdateInitialTransactions(input)
  \/ \E input \in RepeatInputs : UpdateInitialTransactionsAgain(input)
SpecRepeat == InitRepeat /\ [][NextRepeat]_vars

(***************************************************************************)
(* C1: in every reachable state each hot wallet is blocked by at most one   *)
(* transaction with status Pending, and two coordinators never dispatch for *)
(* the same wallet at the same time: at most one coordinator holds a wallet *)
(* and a Pending row that blocks a held wallet is the current transaction   *)
(* of the request the holder dispatches.                                    *)
(***************************************************************************)
Holding(c, w) ==
  \E r \in reg.batch[c] : RequestWallet(r) = w /\ reg.op[r] # "marked"

C2_NoConcurrentSync ==
  \A s \in Sources :
    /\ Cardinality({c \in Coordinators : s \in holding[c]}) <= 1
    /\ (\E c \in Coordinators : s \in holding[c]) => syncInProgress[s] = TRUE

(***************************************************************************)
(* C8: a state-transition transaction is applied to both mirrors or to      *)
(* neither: after updateTransaction handled a transaction for which both    *)
(* requests exist, the current transaction of one mirror has changed if and *)
(* only if that of the other has.                                           *)
(***************************************************************************)
MirrorChanged(side) == db[side] # mirrorLog.before[side]

C8_BothMirrorsOrNeither ==
  (mirrorLog.last # NoTx /\ db.pay.exists /\ db.pur.exists) =>
    (MirrorChanged("pay") <=> MirrorChanged("pur"))

(***************************************************************************)
(* C9: a state-transition transaction changes a request only if it is a     *)
(* legitimate successor: the script input of the transaction, or of an      *)
(* ancestor of it at most MAX_HISTORY_LEVELS hops up, is the request's      *)
(* current transaction or one of its transaction history; a transaction of  *)
(* a foreign line of script transactions leaves both requests unchanged.    *)
(***************************************************************************)
ScriptInput(h) ==
  IF h # NoTx /\ Len(ChainTx(h).inputs) = 1 THEN ChainTx(h).inputs[1] ELSE NoTx

RECURSIVE AncestorAt(_, _)
AncestorAt(h, k) == IF k = 0 THEN h ELSE ScriptInput(AncestorAt(h, k - 1))

LegitimateSuccessor(h, d, side) ==
  \E k \in 1..MAX_DEFAULT_SMART_CONTRACT_HISTORY_LEVELS :
    /\ AncestorAt(h, k) # NoTx
    /\ AncestorAt(h, k) \in {CurHash(d, d[side])} \cup HistHashes(d, d[side])

ForeignHashes == {41, 42, 60}

C9_OnlyLegitimateSuccessor ==
  mirrorLog.last # NoTx =>
    /\ \A side \in {"pay", "pur"} :
         MirrorChanged(side) =>
           LegitimateSuccessor(mirrorLog.last, mirrorLog.before, side)
    /\ mirrorLog.last \in ForeignHashes => db = mirrorLog.before

\* the transaction 21 was applied to the payment request whose current
\* transaction was 20 hops up
C9_Witness ==
  /\ mirrorLog.last = 21
  /\ CurHash(mirrorLog.before, mirrorLog.before.pay) = 1
  /\ CurHash(db, db.pay) = 21

(***************************************************************************)
(* C10: when the handled Initial output matches the purchase request (same  *)
(* blockchain identifier, next action FundsLockingInitiated) but fails one  *)
(* of the field checks, the purchase request with its next action and its   *)
(* current transaction, the Transaction rows and the wallet locks are the   *)
(* same as before the handling.                                             *)
(***************************************************************************)
MatchesPurchase(d, in) ==
  /\ d.pur.exists
  /\ d.pur.bid = in.datum.blockchainIdentifier
  /\ d.pur.action = "FundsLockingInitiated"

FailsFieldCheck(d, in) ==
  \/ in.datum.sellerVkey # d.pur.sellerWallet[1].walletVkey
  \/ in.datum.sellerAddress # d.pur.sellerWallet[1].walletAddress
  \/ in.datum.buyerVkey # d.pur.smartContractWallet[1].walletVkey
  \/ in.datum.buyerAddress # d.pur.smartContractWallet[1].walletAddress
  \/ in.datum.buyerAddress \notin in.inputAddresses
  \/ in.datum.payByTime # d.pur.terms.payByTime
  \/ in.datum.resultTime # d.pur.terms.submitResultTime
  \/ in.datum.externalDisputeUnlockTime # d.pur.terms.externalDisputeUnlockTime
  \/ in.datum.unlockTime < d.pur.terms.unlockTime
  \/ in.datum.collateralReturnLovelace # d.pur.terms.collateralReturnLovelace
  \/ in.datum.buyerCooldownTime # 0 \/ in.datum.sellerCooldownTime # 0
  \/ in.datum.state \in {"RefundRequested", "Disputed"}
  \/ in.datum.resultHash # ""
  \/ in.blockTime * 1000 > in.datum.payByTime
  \/ in.referenceScript

PurchaseUntouched ==
  /\ db.pur = iniLog.before.pur
  /\ db.lockedAt = iniLog.before.lockedAt
  /\ \A i \in 1..Len(iniLog.before.tx) : db.tx[i] = iniLog.before.tx[i]

C10_FailedCheckLeavesPurchase ==
  (/\ iniLog.handled
   /\ MatchesPurchase(iniLog.before, iniLog.input)
   /\ FailsFieldCheck(iniLog.before, iniLog.input)) => PurchaseUntouched

\* an output whose only fault is a collateral other than the stored one was
\* handled while the purchase waited for its Initial output
C10_Witness ==
  /\ iniLog.handled
  /\ MatchesPurchase(iniLog.before, iniLog.input)
  /\ iniLog.input = Deviate(ValidInput, "collateral")
  /\ PurchaseUntouched

C4_FailedApplyKeepsCursor ==
  (cycle.step # None /\ cycle.step[1].applyThrew) =>
    /\ cycle.pc = "done"
    /\ lastIdentifierChecked = cycle.step[1].cursorBefore

(***************************************************************************)
(* C5 as stated: the cursor only moves forward along the chain, except that *)
(* a cycle that detected a rollback has set it back to the fork-point hash. *)
(***************************************************************************)
Position(h) == IndexOf(Hashes(chain), h)

CursorMovedForward ==
  (cycle.step # None /\ cycle.step[1].cursorWritten) =>
    /\ Position(cycle.step[1].hash) # 0
    /\ Position(cycle.step[1].cursorBefore) # 0 =>
         Position(cycle.step[1].cursorBefore) < Position(cycle.step[1].hash)

C6_RollbackSetHandled ==
  (cycle.pc = "done" /\ cycle.rolledBackTx # <<>>) =>
    \A i \in RowsOf(db, SeqToSet(cycle.rolledBackTx)) :
      /\ db.tx[i].status = "RolledBack"
      /\ db.tx[i].blocksWallet = NoWallet
      /\ \A side \in {"pay", "pur"} :
           (db[side].exists /\ db[side].cur = i) =>
             /\ db[side].action = "WaitingForManualAction"
             /\ db[side].errorNote = <<RollbackNote>>

(***************************************************************************)
(* C7: for every redeemer index 0..6, every produced datum and every        *)
(* amount_ok the function returns the state of the redeemer table.          *)
(***************************************************************************)
ResultHashSet(d) == d # None /\ d[1].resultHash # ""

RedeemerTable(r, d, amountOk) ==
  CASE r = 0 -> "Withdrawn"
    [] r = 1 -> IF ResultHashSet(d) THEN "Disputed" ELSE "RefundRequested"
    [] r = 2 -> IF ResultHashSet(d) THEN "ResultSubmitted"
                ELSE IF amountOk THEN "FundsLocked" ELSE "FundsOrDatumInvalid"
    [] r = 3 -> "RefundWithdrawn"
    [] r = 4 -> "DisputedWithdrawn"
    [] r = 5 -> IF d # None /\ d[1].state \in {"RefundRequested", "Disputed"}
                THEN "Disputed" ELSE "ResultSubmitted"
    [] r = 6 -> "RefundRequested"

MatchesPayment(d, in) ==
  /\ d.pay.exists
  /\ d.pay.bid = in.datum.blockchainIdentifier
  /\ d.pay.action = "WaitingForExternalAction"
  /\ d.pay.buyerWallet = None
  /\ d.pay.smartContractWallet # None

\* the checks of the purchase path a payment request has stored values for
ViolatedChecks(d, in) ==
  {name \in {"seller", "inputs", "payByTime", "resultTime",
             "externalDisputeUnlockTime", "unlockTime", "collateral",
             "buyerCooldown", "sellerCooldown", "state", "resultHash",
             "blockTime", "referenceScript"} :
     CASE name = "seller" ->
            \/ in.datum.sellerVkey # d.pay.smartContractWallet[1].walletVkey
            \/ in.datum.sellerAddress # d.pay.smartContractWallet[1].walletAddress
       [] name = "inputs" -> in.datum.buyerAddress \notin in.inputAddresses
       [] name = "payByTime" -> in.datum.payByTime # d.pay.terms.payByTime
       [] name = "resultTime" -> in.datum.resultTime # d.pay.terms.submitResultTime
       [] name = "externalDisputeUnlockTime" ->
            in.datum.externalDisputeUnlockTime
              # d.pay.terms.externalDisputeUnlockTime
       [] name = "unlockTime" -> in.datum.unlockTime < d.pay.terms.unlockTime
       [] name = "collateral" ->
            in.datum.collateralReturnLovelace
              # d.pay.terms.collateralReturnLovelace
       [] name = "buyerCooldown" -> in.datum.buyerCooldownTime # 0
       [] name = "sellerCooldown" -> in.datum.sellerCooldownTime # 0
       [] name = "state" -> in.datum.state \in {"RefundRequested", "Disputed"}
       [] name = "resultHash" -> in.datum.resultHash # ""
       [] name = "blockTime" -> in.blockTime * 1000 > in.datum.payByTime
       [] name = "referenceScript" -> in.referenceScript}

C11_FailedCheckRecordsInvalid ==
  (/\ iniLog.handled
   /\ MatchesPayment(iniLog.before, iniLog.input)
   /\ ViolatedChecks(iniLog.before, iniLog.input) # {}) =>
     /\ db.pay.onChainState = "FundsOrDatumInvalid"
     /\ db.pay.action = "WaitingForManualAction"
     /\ Len(db.pay.errorNote)
          >= Cardinality(ViolatedChecks(iniLog.before, iniLog.input))

(***************************************************************************)
(* C12: replaying the sync loop over the same chain state leaves the        *)
(* database as it was: when the transaction handed to updateTransaction is  *)
(* the one both mirrors already have as their current transaction, no       *)
(* request changes, no Transaction row is created and no history grows.     *)
(***************************************************************************)
C12_ReplayIsIdempotent ==
  (/\ mirrorLog.count > 0
   /\ CurHash(mirrorLog.before, mirrorLog.before.pay) = mirrorLog.last
   /\ CurHash(mirrorLog.before, mirrorLog.before.pur) = mirrorLog.last) =>
     db = mirrorLog.before

(***************************************************************************)
(* C13: when a state-transition transaction that matches a known request    *)
(* carries a redeemer constructor index outside 0..6, the request is put    *)
(* into WaitingForManualAction.                                             *)
(***************************************************************************)
C13_UnknownRedeemerNeedsManualAction ==
  (/\ mirrorLog.count > 0
   /\ ChainTx(mirrorLog.last).redeemerVersion \notin 0..6
   /\ FoundByOldDatum(mirrorLog.before.pay, ChainTx(mirrorLog.last))
   /\ FoundByOldDatum(mirrorLog.before.pur, ChainTx(mirrorLog.last))) =>
     /\ db.pay.action = "WaitingForManualAction"
     /\ db.pur.action = "WaitingForManualAction"

PaymentNoted(text) == text \in SeqToSet(db.pay.errorNote)

\* the handled output with the four times of the stored terms
WithStoredTimes(in, terms) ==
  [in EXCEPT !.datum.payByTime = terms.payByTime,
             !.datum.resultTime = terms.submitResultTime,
             !.datum.unlockTime = terms.unlockTime,
             !.datum.externalDisputeUnlockTime = terms.externalDisputeUnlockTime]

TimesPass(in, terms) ==
  /\ in.datum.unlockTime >= terms.unlockTime
  /\ in.datum.payByTime = terms.payByTime
  /\ in.datum.resultTime = terms.submitResultTime
  /\ in.datum.externalDisputeUnlockTime = terms.externalDisputeUnlockTime

C15_UnlockTimeAtLeastStored ==
  /\ (/\ iniLog.handled
      /\ MatchesPayment(iniLog.before, iniLog.input)
      /\ iniLog.input.datum.buyerAddress \in iniLog.input.inputAddresses) =>
       LET in == iniLog.input
           terms == iniLog.before.pay.terms
       IN /\ PaymentNoted("Unlock time is before the agreed upon time")
               <=> in.datum.unlockTime < terms.unlockTime
          /\ PaymentNoted("Pay by time does not match pay by time in db")
               <=> in.datum.payByTime # terms.payByTime
          /\ PaymentNoted("Result time is not the agreed upon time")
               <=> in.datum.resultTime # terms.submitResultTime
          /\ PaymentNoted("External dispute unlock time is not the agreed upon time")
               <=> in.datum.externalDisputeUnlockTime
                     # terms.externalDisputeUnlockTime
  /\ (/\ iniLog.handled
      /\ MatchesPurchase(iniLog.before, iniLog.input)
      /\ ~FailsFieldCheck(iniLog.before,
                          WithStoredTimes(iniLog.input, iniLog.before.pur.terms))) =>
       (db.pur.onChainState = "FundsLocked"
          <=> TimesPass(iniLog.input, iniLog.before.pur.terms))

(***************************************************************************)
(* C16: an Initial output is applied to a PurchaseRequest only if its       *)
(* next_action is FundsLockingInitiated and every field check passes; when  *)
(* applied, the request is FundsLocked and WaitingForExternalAction, its    *)
(* previous current transaction is in its history, its current transaction  *)
(* is a Confirmed row with the observed hash, and the wallet the previous   *)
(* transaction blocked is released.                                         *)
(***************************************************************************)
C16_InitialAppliedToPurchase ==
  (iniLog.handled /\ db.pur # iniLog.before.pur) =>
    LET before == iniLog.before
        old == before.pur.cur
    IN /\ MatchesPurchase(before, iniLog.input)
       /\ ~FailsFieldCheck(before, iniLog.input)
       /\ db.pur.onChainState = "FundsLocked"
       /\ db.pur.action = "WaitingForExternalAction"
       /\ db.pur.cur \notin 1..Len(before.tx)
       /\ db.tx[db.pur.cur] = TxRow(iniLog.input.hash, "Confirmed", NoWallet)
       /\ old # 0 =>
            /\ old \in db.pur.hist
            /\ db.tx[old].blocksWallet = NoWallet
            /\ before.tx[old].blocksWallet # NoWallet =>
                 ~db.lockedAt[before.tx[old].blocksWallet]
       /\ \A w \in Wallets : PendingBlocking(db, w) = {}

\* an output with a later unlock time was applied to the purchase whose
\* Pending transaction blocked the purchasing wallet
C16_Witness ==
  /\ iniLog.handled
  /\ iniLog.before = DbFundsLockingInitiated
  /\ iniLog.input.datum.unlockTime > iniLog.before.pur.terms.unlockTime
  /\ db.pur.onChainState = "FundsLocked"
  /\ db.pur.hist = {1}
  /\ ~db.lockedAt["wBuy"]

(***************************************************************************)
(* C17: on both Initial-match paths an output whose block time in           *)
(* milliseconds equals the datum's pay_by_time passes the time check and    *)
(* one whose block time is greater fails it: the purchase is left as it was,*)
(* the payment becomes FundsOrDatumInvalid with the time-out message.       *)
(***************************************************************************)
TimedOut(in) == in.blockTime * 1000 > in.datum.payByTime

C17_BlockTimeEqualPayByTimePasses ==
  /\ (/\ iniLog.handled
      /\ MatchesPayment(iniLog.before, iniLog.input)
      /\ iniLog.input.datum.buyerAddress \in iniLog.input.inputAddresses) =>
       /\ PaymentNoted("Block time is after pay by time") <=> TimedOut(iniLog.input)
       /\ TimedOut(iniLog.input) => db.pay.onChainState = "FundsOrDatumInvalid"
  /\ (/\ iniLog.handled
      /\ MatchesPurchase(iniLog.before, iniLog.input)
      /\ ~FailsFieldCheck(iniLog.before, [iniLog.input EXCEPT !.blockTime = 0])) =>
       (db.pur.onChainState = "FundsLocked" <=> ~TimedOut(iniLog.input))

\* an output mined exactly at pay-by time was applied to both requests
C17_Witness ==
  /\ iniLog.handled
  /\ iniLog.before = DbFundsLockingInitiated
  /\ iniLog.input.blockTime * 1000 = iniLog.input.datum.payByTime
  /\ db.pur.onChainState = "FundsLocked"
  /\ db.pay.onChainState = "FundsLocked"
  /\ db.pay.errorNote = <<>>

(***************************************************************************)
(* C18: in a sync cycle a transaction with exactly                          *)
(* BLOCK_CONFIRMATIONS_THRESHOLD confirmations is processed and one with    *)
(* fewer is not: every processed transaction has at least the threshold,    *)
(* the cycle stops at the first transaction below it with the later ones    *)
(* unapplied, and the cursor is where the last processed transaction (or    *)
(* the start of the cycle) left it.                                         *)
(***************************************************************************)
C18_ConfirmationThresholdGatesCycle ==
  /\ cycle.step # None =>
       cycle.step[1].confirmations >= BLOCK_CONFIRMATIONS_THRESHOLD
  /\ (cycle.pc = "process" /\ cycle.step # None) =>
       \A i \in 1..Len(cycle.txData) :
         cycle.txData[i].confirmations <= cycle.step[1].confirmations
  /\ cycle.gate # None =>
       /\ cycle.gate[1].confirmations < BLOCK_CONFIRMATIONS_THRESHOLD
       /\ cycle.pc = "done"
       /\ cycle.txData # <<>>
       /\ Head(cycle.txData).hash = cycle.gate[1].hash
       /\ \A i \in 1..Len(cycle.txData) :
            cycle.txData[i].confirmations < BLOCK_CONFIRMATIONS_THRESHOLD
       /\ lastIdentifierChecked = cycle.latestIdentifier
       /\ cycle.gate[1].previous # None =>
            lastIdentifierChecked = cycle.gate[1].previous[1].hash

\* a cycle applied a transaction with exactly the threshold and stopped at
\* the next one
C18_Witness ==
  /\ cycle.gate # None
  /\ cycle.gate[1].previous # None
  /\ cycle.gate[1].previous[1].applied
  /\ cycle.gate[1].previous[1].confirmations = BLOCK_CONFIRMATIONS_THRESHOLD
  /\ lastIdentifierChecked = cycle.gate[1].previous[1].hash

(***************************************************************************)
(* C19: checkPaymentAmountsMatch returns false, whatever the amounts are,   *)
(* when the collateral is negative or strictly between 0 and                *)
(* MIN_COLLATERAL_LOVELACE; with a collateral of 0 or of at least           *)
(* MIN_COLLATERAL_LOVELACE the amounts alone decide: every requested unit   *)
(* is among the output's, lovelace covers the request plus the collateral,  *)
(* a token matches exactly.                                                 *)
(***************************************************************************)
SameUnit(u, v) == (IF IsLovelace(u) THEN "" ELSE u) = (IF IsLovelace(v) THEN "" ELSE v)

AmountsCover(expected, actual, collateral) ==
  \A k \in 1..Len(expected) :
    \E j \in 1..Len(actual) :
      /\ SameUnit(actual[j].unit, expected[k].unit)
      /\ \A i \in 1..(j - 1) : ~SameUnit(actual[i].unit, expected[k].unit)
      /\ IF SameUnit(expected[k].unit, "")
         THEN expected[k].amount + collateral <= actual[j].quantity
         ELSE expected[k].amount = actual[j].quantity

C19_CollateralZeroOrAtLeastMinimum ==
  amt.result # "unset" =>
    IF amt.collateralReturn = 0 \/ amt.collateralReturn >= MIN_COLLATERAL_LOVELACE
    THEN (amt.result = "true")
           <=> AmountsCover(amt.expectedAmounts, amt.actualAmounts,
                            amt.collateralReturn)
    ELSE amt.result = "false"

\* a call with a collateral of exactly the minimum returned true
C19_Witness ==
  /\ amt.result = "true"
  /\ amt.collateralReturn = MIN_COLLATERAL_LOVELACE
  /\ amt.expectedAmounts # <<>>

(***************************************************************************)
(* C20: a RegistryRequest for which a step of the register dispatcher       *)
(* failed ends in RegistrationFailed with its hot wallet unlocked: while no *)
(* other request uses the wallet, lockedAt is null and no Pending           *)
(* transaction blocks the wallet.                                           *)
(***************************************************************************)
C20_FailedRegistrationUnlocksWallet ==
  \A r \in RegistryRequests :
    (/\ reg.state[r] = "RegistrationFailed"
     /\ \A q \in RegistryRequests \ {r} :
          RequestWallet(q) = RequestWallet(r) => reg.op[q] \in {"none", "marked"}) =>
      /\ ~db.lockedAt[RequestWallet(r)]
      /\ PendingBlocking(db, RequestWallet(r)) = {}

(***************************************************************************)
(* C21: over all retries of the register operation and all dispatcher       *)
(* cycles at most one mint transaction is successfully submitted for a      *)
(* RegistryRequest.                                                         *)
(***************************************************************************)
C21_AtMostOneMintSubmitted ==
  \A r \in RegistryRequests : reg.submitted[r] <= 1

(***************************************************************************)
(* C22: a RegistryRequest whose wallet had no UTXOs at every attempt of the *)
(* register operation gets no Pending transaction and no submission, and    *)
(* once the dispatcher has gone through the results it is in                *)
(* RegistrationFailed with the error text recorded.                         *)
(***************************************************************************)
C22_NoUtxosAbortsRegistration ==
  \A r \in RegistryRequests :
    ~reg.sawUtxos[r] =>
      /\ reg.cur[r] = 0
      /\ reg.submitted[r] = 0
      /\ reg.op[r] \in {"none", "locked", "thrown", "marked"}
      /\ reg.op[r] = "marked" =>
            /\ reg.state[r] = "RegistrationFailed"
            /\ reg.error[r] = NoUtxosError

C22_Witness ==
  \E r \in RegistryRequests :
    /\ ~reg.sawUtxos[r]
    /\ reg.op[r] = "marked"
    /\ reg.tries[r] = MaxRetries

Deletable == {"RegistrationFailed", "DeregistrationConfirmed"}

DeleteStepKeepsRule ==
  /\ \A id \in RegistryIds :
       del'.rows[id] # del.rows[id] =>
         /\ del.rows[id] \in Deletable
         /\ del'.rows[id] = Absent
  /\ \A a \in Callers :
       (del.call[a].pc = "idle" /\ del'.call[a].pc # "idle") =>
         LET row == del.rows[del'.call[a].id] IN
           /\ row = Absent => del'.call[a].status = 404
           /\ (row # Absent /\ row \notin Deletable) => del'.call[a].status = 400
           /\ row \in Deletable => del'.call[a].pc = "found"
           /\ del'.call[a].status \in {400, 404} => del'.rows = del.rows
  /\ \A b \in Callers :
       (del.call[b].pc = "found" /\ del'.call[b].status = 200) =>
         del'.rows = [del.rows EXCEPT ![del.call[b].id] = Absent]

(***************************************************************************)
(* C23: deleteAgentRegistration deletes a RegistryRequest only when its     *)
(* state is RegistrationFailed or DeregistrationConfirmed; for a row in any *)
(* other state it answers 400 and for an id without a row 404, and a call   *)
(* that answers 400 or 404 leaves every row as it was.                      *)
(***************************************************************************)
C23_DeleteOnlyFailedOrDeregistered == [][DeleteStepKeepsRule]_vars

C23_Witness ==
  /\ {200, 400, 404} \subseteq del.statuses
  /\ \E id \in RegistryRequests : del.rows[id] = Absent

ObservedAfter(h, fromState, fromHash) ==
  /\ obs.last = h
  /\ obs.failed = <<FALSE, FALSE>>
  /\ \A side \in {"pay", "pur"} :
       /\ obs.before[side].onChainState = fromState
       /\ CurHash(obs.before, obs.before[side]) = fromHash

BothMirrorsIn(state) ==
  db.pay.onChainState = state /\ db.pur.onChainState = state

(***************************************************************************)
(* C24: with both mirrors in FundsLocked, a RequestRefund transaction       *)
(* (redeemer 1, empty result hash) takes both to RefundRequested; from      *)
(* there a SubmitResult transaction (redeemer 5, new datum in state         *)
(* RefundRequested or Disputed) that spends it takes both to Disputed; from *)
(* there a CancelRefundRequest transaction (redeemer 2, result hash set)    *)
(* that spends it takes both to ResultSubmitted.                            *)
(***************************************************************************)
C24_RefundDisputeCancelSequence ==
  /\ ObservedAfter(2, "FundsLocked", 1) => BothMirrorsIn("RefundRequested")
  /\ \A h \in {91, 93} :
       ObservedAfter(h, "RefundRequested", 2) => BothMirrorsIn("Disputed")
  /\ \A h \in {92, 94} :
       ObservedAfter(h, "Disputed", h - 1) => BothMirrorsIn("ResultSubmitted")

C24_Witness ==
  /\ ObservedAfter(92, "Disputed", 91)
  /\ BothMirrorsIn("ResultSubmitted")
  /\ HistHashes(db, db.pay) = {1, 2, 91}

InitiatedActions ==
  {"SubmitResultInitiated", "WithdrawInitiated", "AuthorizeRefundInitiated",
   "FundsLockingInitiated", "SetRefundRequestedInitiated",
   "UnSetRefundRequestedInitiated", "WithdrawRefundInitiated"}

InitiatedHasCurrentTransaction ==
  /\ \A r \in RegistryRequests :
       reg.state[r] = "RegistrationInitiated" => reg.cur[r] \in 1..Len(db.tx)
  /\ \A side \in {"pay", "pur"} :
       db[side].action \in InitiatedActions => db[side].cur \in 1..Len(db.tx)

ConfirmationMovesCurrentToHistory ==
  \A side \in {"pay", "pur"} :
    (db[side].cur # 0 /\ db'[side].cur # db[side].cur) =>
      /\ db[side].cur \in db'[side].hist
      /\ db'.tx[db'[side].cur].status = "Confirmed"
      /\ db'.tx[db'[side].cur].txHash = SubmitResultTx

(***************************************************************************)
(* C25: a request or registry entry whose action or state is an Initiated   *)
(* one has a current transaction; and when the sync loop applies a          *)
(* confirmed transaction to a request that had a current transaction, that  *)
(* transaction is in the request's history afterwards and the new current   *)
(* transaction is Confirmed and carries the observed hash.                  *)
(***************************************************************************)
C25_InitiatedHasCurrentAndHistoryKept ==
  /\ []InitiatedHasCurrentTransaction
  /\ [][ConfirmationMovesCurrentToHistory]_vars

C25_Witness ==
  /\ db.pay.action \notin InitiatedActions
  /\ db.pay.hist = {1, 3}
  /\ db.tx[db.pay.cur].txHash = SubmitResultTx
  /\ db.tx[db.pay.cur].status = "Confirmed"
  /\ \E r \in RegistryRequests : reg.state[r] = "RegistrationInitiated"

ScriptUtxos(utxos) == SelectSeq(utxos, LAMBDA x : x.address = smartContractAddress)
RedeemerCount(tx) == IF tx.redeemers = None THEN 0 ELSE Len(tx.redeemers[1])
Extracted == ext.result.type # "unset"

OneInputOneRedeemerAtMostOneOutput ==
  /\ Len(ScriptUtxos(ext.tx.inputs)) = 1
  /\ RedeemerCount(ext.tx) = 1
  /\ Len(ScriptUtxos(ext.tx.outputs)) <= 1

SomeOutputHasReferenceScript ==
  \E i \in 1..Len(ext.tx.outputs) :
    ext.tx.outputs[i].address = smartContractAddress /\ ext.tx.outputs[i].referenceScript

\* the input is a plain escrow UTXO and the redeemer has a datum to go to
InputAndNewDatumUsable ==
  LET input == ScriptUtxos(ext.tx.inputs)[1]
      outputs == ScriptUtxos(ext.tx.outputs)
  IN /\ ~input.referenceScript
     /\ input.datum = "contract"
     /\ \/ ext.tx.redeemers[1][1] \in {0, 3, 4}
        \/ Len(outputs) = 1 /\ outputs[1].datum = "contract"

(***************************************************************************)
(* C27: extractOnChainTransactionData answers Transaction exactly for the   *)
(* transactions with one input at the script address, one redeemer and at   *)
(* most one output at the script address; every other transaction that is   *)
(* not Initial, and every transaction with a script output carrying a       *)
(* reference script, is Invalid.                                            *)
(***************************************************************************)
C27_TransactionIffOneInputOneRedeemer ==
  Extracted =>
    /\ ext.result.type = "Transaction" <=> OneInputOneRedeemerAtMostOneOutput
    /\ ext.result.type \in {"Initial", "Transaction", "Invalid"}
    /\ SomeOutputHasReferenceScript => ext.result.type = "Invalid"

(***************************************************************************)
(* C27 as the code has it: Transaction exactly when, besides one input, one *)
(* redeemer and at most one output at the script address, no script output  *)
(* carries a reference script, the input carries none and holds a contract  *)
(* datum, and the redeemer is 0, 3 or 4 or the output holds a contract      *)
(* datum; every other transaction that is not Initial, and every            *)
(* transaction with a script output carrying a reference script, is Invalid.*)
(***************************************************************************)
C27_TransactionIffUsableShape ==
  Extracted =>
    /\ ext.result.type = "Transaction" <=>
         /\ OneInputOneRedeemerAtMostOneOutput
         /\ ~SomeOutputHasReferenceScript
         /\ InputAndNewDatumUsable
    /\ ext.result.type \in {"Initial", "Transaction", "Invalid"}
    /\ SomeOutputHasReferenceScript => ext.result.type = "Invalid"

C27_Witness ==
  /\ Extracted
  /\ OneInputOneRedeemerAtMostOneOutput
  /\ ~SomeOutputHasReferenceScript
  /\ ~InputAndNewDatumUsable
  /\ ext.result.type = "Invalid"

InvalidTxProcessed ==
  /\ cycle.pc = "process"
  /\ ChainTx(Head(cycle.txData).hash).kind = "Invalid"
  /\ ~BelowConfirmationThreshold(Head(cycle.txData))
  /\ cycle'.step # None
  /\ cycle'.step[1].cursorWritten

InvalidTxOnlyMovesCursor ==
  InvalidTxProcessed =>
    /\ db' = db
    /\ lastIdentifierChecked' = Head(cycle.txData).hash
    /\ Len(cycle.txData) > 1 =>
         /\ cycle'.pc = "process"
         /\ cycle'.txData = Tail(cycle.txData)

\* the quantities the output holds of a unit; lovelace is written "" or in
\* any case of the word
QuantitiesOf(actual, unit) ==
  {actual[j].quantity : j \in {i \in 1..Len(actual) :
                                 IF IsLovelace(unit) \/ unit = ""
                                 THEN IsLovelace(actual[i].unit) \/ actual[i].unit = ""
                                 ELSE actual[i].unit = unit}}

RequestedUnitMissing ==
  \E k \in 1..Len(amt.expectedAmounts) :
    QuantitiesOf(amt.actualAmounts, amt.expectedAmounts[k].unit) = {}

ValidCollateral ==
  amt.collateralReturn = 0 \/ amt.collateralReturn >= MIN_COLLATERAL_LOVELACE

(***************************************************************************)
(* C29: for a valid collateral checkPaymentAmountsMatch returns true exactly *)
(* when every requested unit is in the output, the output's lovelace is at   *)
(* least the requested lovelace plus the collateral, and the output's        *)
(* quantity of every other requested unit equals the requested amount; a     *)
(* requested unit missing from the output makes it false.                    *)
(***************************************************************************)
C29_LovelaceAtLeastOthersExact ==
  (amt.result # "unset" /\ ValidCollateral) =>
    /\ amt.result = "true" <=>
         \A k \in 1..Len(amt.expectedAmounts) :
           LET x == amt.expectedAmounts[k]
               q == QuantitiesOf(amt.actualAmounts, x.unit)
           IN /\ q # {}
              /\ IF IsLovelace(x.unit) \/ x.unit = ""
                 THEN \A n \in q : n >= x.amount + amt.collateralReturn
                 ELSE q = {x.amount}
    /\ RequestedUnitMissing => amt.result = "false"

\* a call that returned false only because a token was overpaid by one
C29_Witness ==
  /\ amt.result = "false"
  /\ ValidCollateral
  /\ ~RequestedUnitMissing
  /\ \E k \in 1..Len(amt.expectedAmounts) :
       /\ amt.expectedAmounts[k].unit = "tok"
       /\ QuantitiesOf(amt.actualAmounts, "tok") = {amt.expectedAmounts[k].amount + 1}
  /\ \A k \in 1..Len(amt.expectedAmounts) :
       (IsLovelace(amt.expectedAmounts[k].unit) \/ amt.expectedAmounts[k].unit = "") =>
         \A n \in QuantitiesOf(amt.actualAmounts, "") :
           n >= amt.expectedAmounts[k].amount + amt.collateralReturn

(***************************************************************************)
(* C28: processing a transaction classified Invalid changes no              *)
(* PaymentRequest, PurchaseRequest, Transaction or HotWallet row and sets   *)
(* lastIdentifierChecked to its hash, and the cycle goes on with the        *)
(* transactions after it.                                                   *)
(***************************************************************************)
C28_InvalidTxAdvancesCursorOnly == [][InvalidTxOnlyMovesCursor]_vars

\* one cycle applied transaction 1, skipped the invalid 70 and applied 71
C28_Witness ==
  /\ cycle.step # None
  /\ cycle.step[1].hash = 71
  /\ cycle.step[1].applied
  /\ Len(cycle.applied) = 2
  /\ ChainTx(70).kind = "Invalid"
  /\ lastIdentifierChecked = 71
  /\ db.pay.cur # 0

Holders(j) == {i \in Invocations : mx.pc[j][i] \in {"running", "failed"}}

MutexHeldByOneRunningCycle ==
  \A j \in Jobs :
    /\ Cardinality(Holders(j)) <= 1
    /\ mx.locked[j] <=> Holders(j) # {}
    /\ \A i \in Invocations : mx.pc[j][i] = "skipped" => mx.accesses[j][i] = 0

OverlappingInvocationOnlyReturns ==
  \A j \in Jobs, i \in Invocations :
    /\ (mx.pc[j][i] = "idle" /\ mx'.pc[j][i] # "idle" /\ mx.locked[j]) =>
         /\ mx'.pc[j][i] = "skipped"
         /\ mx'.locked = mx.locked
         /\ mx'.accesses[j][i] = 0
         /\ \A k \in Invocations \ {i} : mx'.pc[j][k] = mx.pc[j][k]
    /\ mx.pc[j][i] = "skipped" =>
         /\ mx'.pc[j][i] \in {"skipped", "idle"}
         /\ mx'.accesses[j][i] = 0
    /\ (i \in Holders(j) /\ mx'.pc[j][i] = "idle") => ~mx'.locked[j]

(***************************************************************************)
(* C30: an invocation of checkLatestTransactions or registerAgentV1 made    *)
(* while an earlier invocation of the same job holds the mutex returns      *)
(* without waiting for the mutex and without a database access or a         *)
(* submission; a cycle that acquired the mutex releases it when it ends,    *)
(* whether or not it failed.                                                *)
(***************************************************************************)
C30_OverlappingInvocationSkipsAndMutexReleased ==
  /\ []MutexHeldByOneRunningCycle
  /\ [][OverlappingInvocationOnlyReturns]_vars

\* after a failed cycle of a job the mutex was acquired again, and a second
\* invocation made meanwhile was turned away
C30_Witness ==
  \E j \in Jobs :
    /\ mx.failed[j]
    /\ mx.pc[j]["i1"] = "running"
    /\ mx.accesses[j]["i1"] >= 1
    /\ mx.pc[j]["i2"] = "skipped"

\* a step of the operation of request r that calls wallet.submitTx
SubmitCalled(r) == reg.op[r] = "created" /\ reg'.op[r] # "created"

\* the placeholder of request r: Pending, without a hash, blocking the wallet
PlaceholderBlocksWallet(r) ==
  /\ reg.cur[r] \in 1..Len(db.tx)
  /\ db.tx[reg.cur[r]].status = "Pending"
  /\ db.tx[reg.cur[r]].txHash = NoTx
  /\ reg.cur[r] \in PendingBlocking(db, RequestWallet(r))

RegisterStepsInOrder ==
  \A r \in RegistryRequests :
    /\ SubmitCalled(r) =>
         /\ reg.state[r] = "RegistrationInitiated"
         /\ PlaceholderBlocksWallet(r)
    /\ (\/ reg'.agentIdentifier[r] # reg.agentIdentifier[r]
        \/ (reg.cur[r] # 0 /\ reg'.cur[r] = reg.cur[r]
            /\ db'.tx[reg.cur[r]].txHash # db.tx[reg.cur[r]].txHash)) =>
         /\ SubmitCalled(r)
         /\ reg'.submitted[r] = reg.submitted[r] + 1
         /\ reg'.agentIdentifier[r] = policyId \o generateAssetName(r)
         /\ db'.tx[reg.cur[r]].txHash # NoTx
    /\ (reg.state[r] = "RegistrationRequested" /\ reg'.state[r] # reg.state[r]
        /\ reg'.state[r] # "RegistrationFailed") =>
         /\ reg'.state[r] = "RegistrationInitiated"
         /\ reg'.cur[r] = Len(db'.tx)
         /\ db'.tx[reg'.cur[r]].status = "Pending"
         /\ db'.tx[reg'.cur[r]].txHash = NoTx
         /\ reg'.submitted[r] = 0

(***************************************************************************)
(* C31: the register dispatcher persists a request as RegistrationInitiated *)
(* together with a Pending placeholder without hash that blocks the wallet, *)
(* then submits, and writes the transaction hash and the agent identifier   *)
(* (policy id followed by asset name) only in the step in which submit      *)
(* returned a hash; submit is never called for a request that is still      *)
(* RegistrationRequested.                                                   *)
(***************************************************************************)
C31_PersistThenSubmitThenWriteHash == [][RegisterStepsInOrder]_vars

C31_Witness ==
  \E r \in RegistryRequests :
    /\ reg.state[r] = "RegistrationInitiated"
    /\ reg.op[r] = "ok"
    /\ reg.agentIdentifier[r] = "policy.asset." \o r
    /\ db.tx[reg.cur[r]].txHash = NewTxHash(r, reg.tries[r])
    /\ reg.tries[r] = 1

\* the lovelace of a UTXO as the claim counts it
ClaimedLovelace(utxo) ==
  IF \E i \in 1..Len(utxo.amount) : utxo.amount[i].unit \in {"lovelace", ""}
  THEN (CHOOSE q \in {utxo.amount[i].quantity : i \in 1..Len(utxo.amount)} :
          \E i \in 1..Len(utxo.amount) :
            utxo.amount[i].unit \in {"lovelace", ""} /\ utxo.amount[i].quantity = q)
  ELSE 0

ReturnedIds == {sel.result[p].id : p \in 1..Len(sel.result)}

(***************************************************************************)
(* C32: sortAndLimitUtxos returns min(n, maxUtxos) of the n input UTXOs,    *)
(* each at most once, ordered by lovelace descending, and no UTXO left out  *)
(* has more lovelace than a returned one; a UTXO without a lovelace entry   *)
(* counts as 0.                                                             *)
(***************************************************************************)
C32_LargestFirstAtMostMaxUtxos ==
  sel.called =>
    LET n == Len(sel.utxos)
        m == Len(sel.result)
    IN /\ m = IF n < maxUtxos THEN n ELSE maxUtxos
       /\ \A p \in 1..m : \E i \in 1..n : sel.result[p] = sel.utxos[i]
       /\ \A p \in 1..m, q \in 1..m : sel.result[p].id = sel.result[q].id => p = q
       /\ \A p \in 1..m, q \in 1..m :
            p < q => ClaimedLovelace(sel.result[p]) >= ClaimedLovelace(sel.result[q])
       /\ \A p \in 1..m, i \in 1..n :
            sel.utxos[i].id \notin ReturnedIds =>
              ClaimedLovelace(sel.result[p]) >= ClaimedLovelace(sel.utxos[i])

\* a wallet of more than maxUtxos UTXOs: one behind the first maxUtxos is
\* returned and one without lovelace is left out
C32_Witness ==
  /\ sel.called
  /\ Len(sel.utxos) > maxUtxos
  /\ Len(sel.result) = maxUtxos
  /\ \E p \in 1..Len(sel.result) : sel.result[p].id > maxUtxos
  /\ \E i \in 1..Len(sel.utxos) :
       sel.utxos[i].id \notin ReturnedIds /\ ClaimedLovelace(sel.utxos[i]) = 0

\* the quantity of a unit over the UTXOs at addresses of the key
RECURSIVE SumAt(_, _, _)
SumAt(utxos, vkey, unit) ==
  IF utxos = <<>> THEN 0
  ELSE LET u == Head(utxos)
           here == IF resolvePaymentKeyHash(u.address) = vkey
                   THEN {i \in 1..Len(u.amount) : u.amount[i].unit = unit}
                   ELSE {}
       IN (IF here = {} THEN 0 ELSE u.amount[CHOOSE i \in here : TRUE].quantity)
          + SumAt(Tail(utxos), vkey, unit)

NetValueRecorded(rows, vkey) ==
  /\ \A p \in 1..Len(rows), q \in 1..Len(rows) : rows[p].unit = rows[q].unit => p = q
  /\ \A p \in 1..Len(rows) :
       rows[p].amount = SumAt(wd.outputs, vkey, rows[p].unit)
                        - SumAt(wd.inputs, vkey, rows[p].unit)
  /\ \A unit \in {"lovelace", "tok"} :
       (SumAt(wd.outputs, vkey, unit) # 0 \/ SumAt(wd.inputs, vkey, unit) # 0) =>
         \E p \in 1..Len(rows) : rows[p].unit = unit

(***************************************************************************)
(* C33: withdrawn amounts for the seller or the buyer are written only when *)
(* the new on-chain state is DisputedWithdrawn, and then every unit is      *)
(* recorded once with the sum over the outputs at addresses of the party's  *)
(* key minus the sum over the inputs at such addresses.                     *)
(***************************************************************************)
C33_WithdrawnIsNetValueOnDisputedWithdrawn ==
  wd.newState # "unset" =>
    /\ (wd.forSeller # <<>> \/ wd.forBuyer # <<>>) => wd.newState = "DisputedWithdrawn"
    /\ wd.newState = "DisputedWithdrawn" =>
         /\ NetValueRecorded(wd.forSeller, SellerBase.walletVkey)
         /\ NetValueRecorded(wd.forBuyer, BuyerBase.walletVkey)

\* the seller paid 5 lovelace in and got 2 lovelace and a token out at
\* another address of the same key
C33_Witness ==
  /\ wd.newState = "DisputedWithdrawn"
  /\ \E p \in 1..Len(wd.forSeller) :
       wd.forSeller[p].unit = "lovelace" /\ wd.forSeller[p].amount = -3
  /\ \E p \in 1..Len(wd.forSeller) :
       wd.forSeller[p].unit = "tok" /\ wd.forSeller[p].amount = 1
  /\ wd.forBuyer = <<>>

ProcessedHashRecorded ==
  (/\ cycle.step # None
   /\ cycle.step[1].cursorWritten
   /\ lastIdentifierChecked = cycle.step[1].hash) =>
    cycle.step[1].hash \in SeqToSet(paymentSourceIdentifiers)

IdentifiersOnlyAppended ==
  SeqToSet(paymentSourceIdentifiers) \subseteq SeqToSet(paymentSourceIdentifiers')

(***************************************************************************)
(* C34: once the sync loop has processed a transaction and set              *)
(* lastIdentifierChecked to its hash, the hash is in                        *)
(* paymentSourceIdentifiers, and the sync loop removes no entry of          *)
(* paymentSourceIdentifiers.                                                *)
(***************************************************************************)
C34_CursorHashInIdentifiers ==
  /\ []ProcessedHashRecorded
  /\ [][IdentifiersOnlyAppended]_vars

(***************************************************************************)
(* C35: in a cycle in which the extended information of a discovered        *)
(* transaction could not be fetched, no transaction with a later block time *)
(* is applied and lastIdentifierChecked is not set to a transaction behind  *)
(* the unfetched one on the chain.                                          *)
(***************************************************************************)
C35_CursorStopsAtUnfetchedTx ==
  (cycle.unfetched # None /\ cycle.step # None) =>
    /\ cycle.step[1].applied => cycle.step[1].time <= cycle.unfetched[1].time
    /\ cycle.step[1].cursorWritten =>
         Position(cycle.step[1].hash) < Position(cycle.unfetched[1].hash)

\* the first Initial output was matched to the PaymentRequest and applied
FirstInitialApplied ==
  /\ iniLog.calls = 2
  /\ iniLog.before.pay.onChainState # iniLog.start.pay.onChainState

(***************************************************************************)
(* C36: once an Initial output was applied to a PaymentRequest, as          *)
(* FundsLocked or as FundsOrDatumInvalid, the request has a BuyerWallet,    *)
(* and a later Initial output with the same blockchainIdentifier changes    *)
(* neither its onChainState, its next action, its BuyerWallet nor its       *)
(* current transaction.                                                     *)
(***************************************************************************)
C36_AtMostOneInitialOutputApplied ==
  FirstInitialApplied =>
    /\ iniLog.before.pay.onChainState \in {"FundsLocked", "FundsOrDatumInvalid"}
    /\ iniLog.before.pay.buyerWallet # None
    /\ db.pay.onChainState = iniLog.before.pay.onChainState
    /\ db.pay.action = iniLog.before.pay.action
    /\ db.pay.errorNote = iniLog.before.pay.errorNote
    /\ db.pay.buyerWallet = iniLog.before.pay.buyerWallet
    /\ db.pay.cur = iniLog.before.pay.cur

\* the first output passed every check and a second valid output for the
\* same request arrived in transaction 40
C36_Witness ==
  /\ FirstInitialApplied
  /\ iniLog.before.pay.onChainState = "FundsLocked"
  /\ iniLog.before.pay.action = "WaitingForExternalAction"
  /\ iniLog.input.datum = ValidDatum
  /\ iniLog.input.hash = 40
  /\ iniLog.input.inputAddresses = {"aB"}

\* the n-th cycle, which had flagged ids, has ended and no later one started
CycleOver(n, ids) ==
  sc.pc = "idle" /\ ~sc.mutex /\ sc.cycles = n /\ sc.last.ids = ids

(***************************************************************************)
(* C37 as stated: every sync cycle that set syncInProgress on a set of      *)
(* PaymentSources eventually has cleared the flag on each of them and       *)
(* released the mutex, whatever the outcome of the work on the sources.     *)
(***************************************************************************)
C37_CycleClearsFlagsAndMutex ==
  \A n \in 1..MaxSyncCycles, ids \in SUBSET Sources :
    (sc.pc = "processing" /\ sc.cycles = n /\ sc.ids = ids) ~>
      (CycleOver(n, ids) /\ \A s \in ids : ~sc.syncInProgress[s])

(***************************************************************************)
(* C37, amended: every sync cycle that set syncInProgress on a set of       *)
(* PaymentSources eventually releases the mutex, and by then it has cleared *)
(* the flag on each of them unless the update that clears the flags failed. *)
(***************************************************************************)
C37_CycleReleasesMutexAndClearsUnlessUnlockFails ==
  \A n \in 1..MaxSyncCycles, ids \in SUBSET Sources :
    (sc.pc = "processing" /\ sc.cycles = n /\ sc.ids = ids) ~>
      (/\ CycleOver(n, ids)
       /\ sc.last.unlockFailed \/ \A s \in ids : ~sc.syncInProgress[s])

\* a cycle that had flagged every source and failed on one has ended with
\* the flags cleared and the mutex free
C37_Witness ==
  /\ CycleOver(1, Sources)
  /\ sc.last.outcome = "failed"
  /\ ~sc.last.unlockFailed
  /\ \A s \in Sources : ~sc.syncInProgress[s]

(***************************************************************************)
(* C38: the next action the sync loop writes for a state-transition         *)
(* transaction is the table result for the request's next action as it is   *)
(* inside the serializable transaction that writes: the table is given the  *)
(* action read there, also when it changed after updateTransaction's first  *)
(* read.                                                                    *)
(***************************************************************************)
C38_ActionFromValueInsideTransaction ==
  st.pc = "written" =>
    /\ st.tableInput.pay = st.actionInTx.pay
    /\ st.tableInput.pur = st.actionInTx.pur

(***************************************************************************)
(* C39: for every interleaving of startMonitoring and stopMonitoring, also  *)
(* with stopMonitoring during the await of the initial cycle, at most one   *)
(* interval timer is active, a timer is active only while isMonitoring is   *)
(* true, and once stopMonitoring has returned and no startMonitoring is     *)
(* pending, no monitoring cycle is scheduled.                               *)
(***************************************************************************)
C39_OneTimerOnlyWhileMonitoring ==
  /\ Cardinality(mon.timers) <= 1
  /\ mon.timers # {} => mon.isMonitoring
  /\ (mon.stopped /\ mon.awaiting = 0) => mon.timers = {}

(***************************************************************************)
(* C40: getSmartContractInteractionTxHistoryList returns after at most      *)
(* maxLevels UTXO lookups; the hashes it returns are hashes of script       *)
(* inputs of the start transaction or of its visited ancestors, each once;  *)
(* it returns the empty list when a visited transaction that does not yet   *)
(* complete the search has more than one output at the script address.      *)
(***************************************************************************)
ScriptInputsUpTo(k) ==
  UNION {SeqToSet(ChainTx(hw.visited[i]).inputs) : i \in 1..k}

\* the k-th lookup neither ends the walk nor finds lastTxHash
SearchIncompleteAt(k) ==
  /\ Len(ChainTx(hw.visited[k]).inputs) = 1
  /\ hw.lastTxHash \notin ScriptInputsUpTo(k)

ForkBeforeCompletion ==
  \E k \in 1..Len(hw.visited) :
    SearchIncompleteAt(k) /\ ChainTx(hw.visited[k]).outCount > 1

HistoryListAsClaimed ==
  /\ Len(hw.visited) <= hw.maxLevels
  /\ hw.pc = "returned" =>
       /\ \A i \in 1..Len(hw.result) :
            hw.result[i] \in ScriptInputsUpTo(Len(hw.visited))
       /\ \A i, j \in 1..Len(hw.result) : hw.result[i] = hw.result[j] => i = j
       /\ ForkBeforeCompletion => hw.result = <<>>

C40_HistoryListTerminatesWithinMaxLevels ==
  /\ []HistoryListAsClaimed
  /\ <>(hw.pc = "returned")

C40_Witness ==
  /\ hw.pc = "returned"
  /\ hw.txHash = 71
  /\ Len(hw.visited) = 2
  /\ ForkBeforeCompletion
  /\ hw.w.txHashes # <<>>
  /\ hw.result = <<>>

====
